---- MODULE Spec2Model ----
(***************************************************************************)
(* Model of the FRED MCP server's HTTP access layer.                       *)
(*                                                                         *)
(* Two implementations of the fetch path live in the repository and both   *)
(* are modelled:                                                           *)
(*   module "client": fred_mcp/client.py  (shared client, retry loop,      *)
(*                    FredServerError payloads) with fred_mcp/errors.py    *)
(*   module "server": fred_server.py      (the tool operations and the     *)
(*                    _http_get_json they call)                            *)
(*                                                                         *)
(* Text is a sequence of one-character strings, so that strip() and        *)
(* lower() are computed.  Durations are milliseconds.  One process per     *)
(* call; a step of a call is the code between two suspension points        *)
(* (await) of the coroutine.                                               *)
(***************************************************************************)
EXTENDS Integers, Sequences, FiniteSets, TLC

\* ------------------------------------------------------------------ bounds

\* number of call slots that may be in flight together (SpecConc)
NCalls == 2

\* number of explicit resets of the shared client (conftest fixture)
MaxResets == 1

\* longest upstream list (observations, categories, seriess) of a response
MaxRows == 2

\* ------------------------------------------------- program constants

HTTP_MAX_RETRIES == 3

BACKOFF_BASE_MS == 500

BACKOFF_MAX_MS == 8000

RETRYABLE_STATUS_CODES == {429, 500, 502, 503, 504}

FRED_API_BASE == "https://api.stlouisfed.org/fred"

GEOFRED_API_BASE == "https://api.stlouisfed.org/geofred"

FRED_V2_API_BASE == "https://api.stlouisfed.org/fred/v2"

\* ------------------------------------------------------------ text helpers

RECURSIVE LStrip(_, _)
LStrip(s, chars) ==
    IF s # <<>> /\ Head(s) \in chars THEN LStrip(Tail(s), chars) ELSE s

RECURSIVE RStrip(_, _)
RStrip(s, chars) ==
    IF s # <<>> /\ s[Len(s)] \in chars
    THEN RStrip(SubSeq(s, 1, Len(s) - 1), chars)
    ELSE s

\* str.strip(): leading and trailing whitespace removed
Whitespace == {" ", "\t", "\n"}

StrStrip(s) == RStrip(LStrip(s, Whitespace), Whitespace)

\* str.strip("/")
SlashStrip(s) == RStrip(LStrip(s, {"/"}), {"/"})

\* the characters of a string literal, as a text
RECURSIVE Text(_)
Text(s) == IF s = "" THEN <<>> ELSE <<Head(s)>> \o Text(Tail(s))

UpperLetters == Text("ABCDEFGHIJKLMNOPQRSTUVWXYZ")

LowerLetters == Text("abcdefghijklmnopqrstuvwxyz")

LowerChar(ch) ==
    IF \E i \in 1..26 : UpperLetters[i] = ch
    THEN LowerLetters[CHOOSE i \in 1..26 : UpperLetters[i] = ch]
    ELSE ch

\* str.lower()
StrLower(s) == [i \in 1..Len(s) |-> LowerChar(s[i])]

\* ------------------------------------------------------ python values

PStr(text) == [type |-> "str", text |-> text]

\* str(True) = "True", str(False) = "False"
PBool(b) ==
    [type |-> "bool",
     text |-> IF b THEN <<"T", "r", "u", "e">> ELSE <<"F", "a", "l", "s", "e">>]

PNone == [type |-> "none", text |-> <<>>]

EmptyDict == [k \in {} |-> PNone]

\* d with d[key] = val  (dict item assignment)
DictSet(d, key, val) ==
    [k \in DOMAIN d \cup {key} |-> IF k = key THEN val ELSE d[k]]

JsonText == <<"j", "s", "o", "n">>

\* an int value
PInt(n) == [type |-> "int", text |-> <<>>, int |-> n]

\* dict.get(key), None when the key is absent
DictGet(d, key) == IF key \in DOMAIN d THEN d[key] ELSE PNone

\* ------------------------------------------------ fred_mcp/validation.py

RELEASE_ORDER_BY_VALUES ==
    {Text("release_id"), Text("name"), Text("press_release"),
     Text("realtime_start"), Text("realtime_end")}

SERIES_ORDER_BY_VALUES ==
    {Text("series_id"), Text("title"), Text("units"), Text("frequency"),
     Text("seasonal_adjustment"), Text("realtime_start"), Text("realtime_end"),
     Text("last_updated"), Text("observation_start"), Text("observation_end"),
     Text("popularity"), Text("group_popularity")}

SEARCH_SERIES_ORDER_BY_VALUES == SERIES_ORDER_BY_VALUES \cup {Text("search_rank")}

TAGS_ORDER_BY_VALUES ==
    {Text("series_count"), Text("popularity"), Text("created"), Text("name"),
     Text("group_id")}

SOURCES_ORDER_BY_VALUES ==
    {Text("source_id"), Text("name"), Text("realtime_start"), Text("realtime_end")}

\* one entry of ORDER_BY_RULES: endpoint -> (default, valid)
OrderByRule(endpoint, default, valid) ==
    Text(endpoint) :> [default |-> Text(default), valid |-> valid]

ORDER_BY_RULES ==
    OrderByRule("category/series", "popularity", SERIES_ORDER_BY_VALUES)
    @@ OrderByRule("category/tags", "series_count", TAGS_ORDER_BY_VALUES)
    @@ OrderByRule("category/related_tags", "series_count", TAGS_ORDER_BY_VALUES)
    @@ OrderByRule("releases", "release_id", RELEASE_ORDER_BY_VALUES)
    @@ OrderByRule("release/series", "popularity", SERIES_ORDER_BY_VALUES)
    @@ OrderByRule("release/tags", "series_count", TAGS_ORDER_BY_VALUES)
    @@ OrderByRule("release/related_tags", "series_count", TAGS_ORDER_BY_VALUES)
    @@ OrderByRule("series/search", "search_rank", SEARCH_SERIES_ORDER_BY_VALUES)
    @@ OrderByRule("series/search/tags", "series_count", TAGS_ORDER_BY_VALUES)
    @@ OrderByRule("series/search/related_tags", "series_count", TAGS_ORDER_BY_VALUES)
    @@ OrderByRule("series/tags", "series_count", TAGS_ORDER_BY_VALUES)
    @@ OrderByRule("sources", "source_id", SOURCES_ORDER_BY_VALUES)
    @@ OrderByRule("source/releases", "release_id", RELEASE_ORDER_BY_VALUES)
    @@ OrderByRule("tags", "series_count", TAGS_ORDER_BY_VALUES)
    @@ OrderByRule("related_tags", "series_count", TAGS_ORDER_BY_VALUES)
    @@ OrderByRule("tags/series", "popularity", SERIES_ORDER_BY_VALUES)

\* validation._clamp and fred_server._clamp
_clamp(value, low, high) ==
    LET m == IF high < value THEN high ELSE value
    IN  IF m > low THEN m ELSE low

\* validation._non_negative and fred_server._non_negative
_non_negative(value) == IF value > 0 THEN value ELSE 0

\* str(value) of a str or a bool
PyStr(value) == value.text

\* validation._normalize_enum
_normalize_enum(value, valid, default) ==
    LET candidate == IF value.type # "none"
                     THEN StrLower(StrStrip(PyStr(value)))
                     ELSE <<>>
    IN  IF candidate \in valid THEN candidate ELSE default

\* validation._normalize_sort_order
_normalize_sort_order(value) ==
    _normalize_enum(value, {Text("asc"), Text("desc")}, Text("desc"))

\* mutant: an endpoint without a rule gets the value back, trimmed and lowered
_normalize_order_by_SilentDefault(endpoint, value) ==
    IF endpoint \notin DOMAIN ORDER_BY_RULES
    THEN [ok |-> TRUE, text |-> _normalize_enum(value, {}, <<>>)]
    ELSE [ok |-> TRUE,
          text |-> _normalize_enum(value, ORDER_BY_RULES[endpoint].valid,
                                   ORDER_BY_RULES[endpoint].default)]

\* validation._normalize_order_by: [ok, text]; not ok is the ValueError
_normalize_order_by(endpoint, value) ==
    IF endpoint \notin DOMAIN ORDER_BY_RULES
    THEN [ok |-> FALSE, text |-> <<>>]
    ELSE [ok |-> TRUE,
          text |-> _normalize_enum(value, ORDER_BY_RULES[endpoint].valid,
                                   ORDER_BY_RULES[endpoint].default)]

\* ----------------------------------------- normalizers of fred_server.py

\* fred_server._normalize_sort_order: [ok, text]; not ok is the
\* AttributeError of value.strip() on a value that is not a str
_normalize_sort_order_server(value) ==
    IF value.type # "str" THEN [ok |-> FALSE, text |-> <<>>]
    ELSE [ok |-> TRUE,
          text |-> IF StrLower(StrStrip(value.text)) = Text("asc")
                   THEN Text("asc") ELSE Text("desc")]

\* fred_server._normalize_release_order_by: [ok, text] likewise
_normalize_release_order_by(value) ==
    IF value.type # "str" THEN [ok |-> FALSE, text |-> <<>>]
    ELSE LET valid == {Text("release_id"), Text("name"), Text("press_release"),
                       Text("realtime_start"), Text("realtime_end")}
             candidate == StrLower(StrStrip(value.text))
         IN  [ok |-> TRUE,
              text |-> IF candidate \in valid THEN candidate ELSE Text("release_id")]

\* ------------------------------------------------------- error model

\* status_code=None
NoStatus == 0

\* base_url=None
NoBaseUrl == "None"

NoDetails == [attempt |-> 0, exception_type |-> "", reason |-> ""]

Details(attempt) == [NoDetails EXCEPT !.attempt = attempt]

\* errors._error_payload: the canonical Error Payload.  keys is the set of
\* top-level keys of the returned dict; an endpoint of None is the empty text
\* (endpoint.strip("/") if endpoint else None).
_error_payload(message, code, error_type, base_url, endpoint, status_code, retryable, details) ==
    [keys |-> {"error", "error_details"},
     error |-> message,
     type |-> error_type,
     code |-> code,
     base_url |-> base_url,
     endpoint |-> IF endpoint # <<>> THEN SlashStrip(endpoint) ELSE <<>>,
     status_code |-> status_code,
     retryable |-> retryable,
     details |-> details]

\* placeholder where a result carries no Error Payload
NoPayload ==
    [keys |-> {}, error |-> "", type |-> "", code |-> "", base_url |-> NoBaseUrl,
     endpoint |-> <<>>, status_code |-> NoStatus, retryable |-> FALSE,
     details |-> NoDetails]

\* the dict {"error": message} that fred_server.py's tools return
BareError(message) == [NoPayload EXCEPT !.keys = {"error"}, !.error = message]

\* ---------------------------------------------------- outcomes of a call

NoResult ==
    [kind |-> "none", exc |-> "", msg |-> "", body |-> "", payload |-> NoPayload,
     value |-> PNone]

\* return <JSON value of the given kind>
Returned(body) == [NoResult EXCEPT !.kind = "returned", !.body = body]

\* return <a dict or a str the code has built>: value is its content
ReturnedValue(body, value) ==
    [NoResult EXCEPT !.kind = "returned", !.body = body, !.value = value]

\* return <an error dict>
ReturnedError(payload) ==
    [NoResult EXCEPT !.kind = "returned", !.body = "error", !.payload = payload]

\* raise exc(msg)
Raised(exc, msg) == [NoResult EXCEPT !.kind = "raised", !.exc = exc, !.msg = msg]

\* raise FredServerError(payload): the message is payload.get("error", ...)
FredServerError(payload) ==
    [NoResult EXCEPT !.kind = "raised", !.exc = "FredServerError",
                     !.msg = payload.error, !.payload = payload]

\* asyncio.CancelledError propagating out of the coroutine
Cancelled == [NoResult EXCEPT !.kind = "cancelled", !.exc = "CancelledError"]

\* json.JSONDecodeError and UnicodeDecodeError derive from ValueError
IsValueError(exc) == exc \in {"ValueError", "JSONDecodeError", "UnicodeDecodeError"}

\* mutant: no "except asyncio.CancelledError: raise" ahead of the catch-all
_tool_error_boundary_CatchAll(raw) ==
    CASE raw.kind = "raised" /\ raw.exc = "FredServerError" ->
            ReturnedError(raw.payload)
      [] raw.kind = "raised" /\ IsValueError(raw.exc) ->
            ReturnedError(_error_payload(raw.msg, "validation_error",
                                         "validation_error", NoBaseUrl, <<>>,
                                         NoStatus, FALSE, NoDetails))
      [] raw.kind \in {"raised", "cancelled"} ->
            ReturnedError(_error_payload("Internal server error", "internal_error",
                                         "internal_error", NoBaseUrl, <<>>,
                                         NoStatus, FALSE,
                                         [NoDetails EXCEPT !.exception_type = raw.exc]))
      [] OTHER -> raw

\* mutant: a FredServerError is wrapped again, as a validation failure
_tool_error_boundary_Rewrap(raw) ==
    CASE raw.kind = "cancelled" -> raw
      [] raw.kind = "raised" /\ (raw.exc = "FredServerError" \/ IsValueError(raw.exc)) ->
            ReturnedError(_error_payload(raw.msg, "validation_error",
                                         "validation_error", NoBaseUrl, <<>>,
                                         NoStatus, FALSE, NoDetails))
      [] raw.kind = "raised" ->
            ReturnedError(_error_payload("Internal server error", "internal_error",
                                         "internal_error", NoBaseUrl, <<>>,
                                         NoStatus, FALSE,
                                         [NoDetails EXCEPT !.exception_type = raw.exc]))
      [] OTHER -> raw

\* mutant: the message of an unanticipated fault is put in the payload
_tool_error_boundary_LeakMessage(raw) ==
    CASE raw.kind = "cancelled" -> raw
      [] raw.kind = "raised" /\ raw.exc = "FredServerError" ->
            ReturnedError(raw.payload)
      [] raw.kind = "raised" /\ IsValueError(raw.exc) ->
            ReturnedError(_error_payload(raw.msg, "validation_error",
                                         "validation_error", NoBaseUrl, <<>>,
                                         NoStatus, FALSE, NoDetails))
      [] raw.kind = "raised" ->
            ReturnedError(_error_payload(raw.msg, "internal_error",
                                         "internal_error", NoBaseUrl, <<>>,
                                         NoStatus, FALSE,
                                         [NoDetails EXCEPT !.exception_type = raw.exc]))
      [] OTHER -> raw

\* errors._tool_error_boundary.wrapper applied to the outcome of the wrapped
\* coroutine
_tool_error_boundary(raw) ==
    CASE raw.kind = "cancelled" -> raw
      [] raw.kind = "raised" /\ raw.exc = "FredServerError" ->
            ReturnedError(raw.payload)
      [] raw.kind = "raised" /\ IsValueError(raw.exc) ->
            ReturnedError(_error_payload(raw.msg, "validation_error",
                                         "validation_error", NoBaseUrl, <<>>,
                                         NoStatus, FALSE, NoDetails))
      [] raw.kind = "raised" ->
            ReturnedError(_error_payload("Internal server error", "internal_error",
                                         "internal_error", NoBaseUrl, <<>>,
                                         NoStatus, FALSE,
                                         [NoDetails EXCEPT !.exception_type = raw.exc]))
      [] OTHER -> raw

\* ------------------------------------------------------- client helpers

\* os.getenv("FRED_API_KEY", ""): env is [set, value]
Getenv(e) == IF e.set THEN e.value ELSE <<>>

\* mutant: the value is not stripped before the emptiness test
_fred_api_key_NoStrip(e) ==
    LET key == Getenv(e)
    IN  [ok |-> key # <<>>, key |-> key]

\* client._fred_api_key: [ok, key]; not ok is the ValueError
_fred_api_key(e) ==
    LET key == StrStrip(Getenv(e))
    IN  [ok |-> key # <<>>, key |-> key]

MissingKeyMsg == "Missing FRED_API_KEY environment variable"

\* mutant: a bool is serialized by str() alone, "True" and "False"
_clean_params_NoLower(params) ==
    LET kept == {k \in DOMAIN params : params[k].type # "none"}
    IN  [k \in kept |->
            IF params[k].type = "bool" THEN PStr(params[k].text) ELSE params[k]]

\* client._clean_params
_clean_params(params) ==
    LET kept == {k \in DOMAIN params : params[k].type # "none"}
    IN  [k \in kept |->
            IF params[k].type = "bool"
            THEN PStr(StrLower(params[k].text))
            ELSE params[k]]

\* mutant: file_type is set only when the caller's mapping has none
BuildQuery_KeepFileType(params, include_api_key_query, key) ==
    LET cleaned == _clean_params(params)
        keyed == IF include_api_key_query
                 THEN DictSet(cleaned, "api_key", PStr(key))
                 ELSE cleaned
    IN  IF "file_type" \in DOMAIN keyed THEN keyed
        ELSE DictSet(keyed, "file_type", PStr(JsonText))

\* the query of _http_get_json (client.py lines 109-112, fred_server.py 89-92)
BuildQuery(params, include_api_key_query, key) ==
    LET cleaned == _clean_params(params)
        keyed == IF include_api_key_query
                 THEN DictSet(cleaned, "api_key", PStr(key))
                 ELSE cleaned
    IN  DictSet(keyed, "file_type", PStr(JsonText))

\* --------------------------------------------------- redaction for logs

Redacted == <<"*", "*", "*">>

ApiKeyEquals == Text("api_key=")

\* text begins with prefix
StartsWith(text, prefix) ==
    Len(text) >= Len(prefix) /\ SubSeq(text, 1, Len(prefix)) = prefix

\* the characters the class [^&\s] leaves out
ValueEnd == {"&", " ", "\t", "\n"}

\* the longest run of [^&\s] characters text begins with
RECURSIVE ValueRun(_)
ValueRun(text) ==
    IF text = <<>> \/ Head(text) \in ValueEnd THEN <<>>
    ELSE <<Head(text)>> \o ValueRun(Tail(text))

\* mutant: the text is logged as it is
_redact_api_key_text_Verbatim(value) == value

\* client._redact_api_key_text: re.sub(r"(api_key=)[^&\s]+", r"\1***", value),
\* every match from left to right
RECURSIVE _redact_api_key_text(_)
_redact_api_key_text(value) ==
    IF value = <<>> THEN <<>>
    ELSE LET rest == SubSeq(value, Len(ApiKeyEquals) + 1, Len(value))
             run == ValueRun(rest)
         IN  IF StartsWith(value, ApiKeyEquals) /\ run # <<>>
             THEN ApiKeyEquals \o Redacted
                  \o _redact_api_key_text(SubSeq(rest, Len(run) + 1, Len(rest)))
             ELSE <<Head(value)>> \o _redact_api_key_text(Tail(value))

\* client._sanitize_log_params
_sanitize_log_params(params) ==
    [key \in DOMAIN params |->
        IF key = "api_key" THEN PStr(Redacted) ELSE params[key]]

\* A Python float: cls is "finite" (the value, in ms), "nan", "inf" or "-inf"
Float(ms) == [cls |-> "finite", ms |-> ms]

\* x < y on floats: every comparison with a NaN is false
FloatLt(x, y) ==
    CASE x.cls = "nan" \/ y.cls = "nan" -> FALSE
      [] x.cls = "-inf" -> y.cls # "-inf"
      [] x.cls = "inf" -> FALSE
      [] y.cls = "-inf" -> FALSE
      [] y.cls = "inf" -> TRUE
      [] OTHER -> x.ms < y.ms

\* the builtins min(a, b) and max(a, b): the first argument is kept unless the
\* second compares strictly below (above) it
PyMin(a, b) == IF FloatLt(b, a) THEN b ELSE a

PyMax(a, b) == IF FloatLt(a, b) THEN b ELSE a

\* ------------------------------------------------- paging normalizers

\* a float value: cls as for Float; a finite one is given in tenths (37 is 3.7)
PFloat(cls, tenths) == [type |-> "float", text |-> <<>>, cls |-> cls, tenths |-> tenths]

Digits == Text("0123456789")

DigitValue(ch) == (CHOOSE i \in 1..10 : Digits[i] = ch) - 1

\* the number a text of decimal digits denotes
RECURSIVE DigitsValue(_)
DigitsValue(s) ==
    IF s = <<>> THEN 0
    ELSE 10 * DigitsValue(SubSeq(s, 1, Len(s) - 1)) + DigitValue(s[Len(s)])

\* the exception int(value) raises, or the int it gives
IntFails(exc) == [ok |-> FALSE, exc |-> exc, int |-> 0]

IntGives(n) == [ok |-> TRUE, exc |-> "", int |-> n]

\* int(text): whitespace is stripped, a sign may come first, then digits
IntOfText(text) ==
    LET t == StrStrip(text)
        signed == t # <<>> /\ Head(t) \in {"+", "-"}
        body == IF signed THEN Tail(t) ELSE t
    IN  IF body = <<>> \/ \E i \in 1..Len(body) : \A j \in 1..10 : Digits[j] # body[i]
        THEN IntFails("ValueError")
        ELSE IntGives(IF signed /\ Head(t) = "-" THEN 0 - DigitsValue(body)
                      ELSE DigitsValue(body))

\* the builtin int(value): a float is truncated toward zero, int(nan) is a
\* ValueError, int(inf) an OverflowError, int(None) a TypeError
PyInt(value) ==
    CASE value.type = "int" -> IntGives(value.int)
      [] value.type = "bool" -> IntGives(IF value = PBool(TRUE) THEN 1 ELSE 0)
      [] value.type = "str" -> IntOfText(value.text)
      [] value.type = "float" ->
            CASE value.cls = "nan" -> IntFails("ValueError")
              [] value.cls \in {"inf", "-inf"} -> IntFails("OverflowError")
              [] value.tenths >= 0 -> IntGives(value.tenths \div 10)
              [] OTHER -> IntGives(0 - ((0 - value.tenths) \div 10))
      [] OTHER -> IntFails("TypeError")

\* the outcome of a normalizer: the value returned or the exception raised
Normalized(value) == [ok |-> TRUE, exc |-> "", value |-> value]

NormalizerRaises(exc) == [ok |-> FALSE, exc |-> exc, value |-> PNone]

\* validation._normalize_limit
_normalize_limit(value, low, high) ==
    LET parsed == PyInt(value)
    IN  IF parsed.ok THEN Normalized(PInt(_clamp(parsed.int, low, high)))
        ELSE IF parsed.exc \in {"TypeError", "ValueError"}
        THEN Normalized(PInt(_clamp(low, low, high)))
        ELSE NormalizerRaises(parsed.exc)

\* validation._normalize_offset
_normalize_offset(value) ==
    LET parsed == PyInt(value)
    IN  IF parsed.ok THEN Normalized(PInt(_non_negative(parsed.int)))
        ELSE IF parsed.exc \in {"TypeError", "ValueError"}
        THEN Normalized(PInt(_non_negative(0)))
        ELSE NormalizerRaises(parsed.exc)

\* an int or a float as an operand of min() and max(): its place in the order
\* (in tenths) and the object itself
Operand(value) ==
    IF value.type = "int"
    THEN [cls |-> "finite", ms |-> 10 * value.int, py |-> value]
    ELSE [cls |-> value.cls, ms |-> value.tenths, py |-> value]

\* fred_server._clamp given any value: max(low, min(value, high)); comparing
\* an int with a str or None is a TypeError, a float is compared as it is
_clamp_server(value, low, high) ==
    IF value.type \notin {"int", "float"} THEN NormalizerRaises("TypeError")
    ELSE Normalized(PyMax(Operand(PInt(low)),
                          PyMin(Operand(value), Operand(PInt(high)))).py)

\* fred_server._non_negative given any value: max(0, value)
_non_negative_server(value) ==
    IF value.type \notin {"int", "float"} THEN NormalizerRaises("TypeError")
    ELSE Normalized(PyMax(Operand(PInt(0)), Operand(value)).py)

\* Retry-After header of a response: absent, or a text that float() parses
\* (numeric: the float it gives, cls and ms) or rejects with ValueError
NoRetryAfter == [present |-> FALSE, numeric |-> FALSE, cls |-> "finite", ms |-> 0]

\* a Retry-After header whose text float() rejects (an HTTP-date)
RetryAfterText == [NoRetryAfter EXCEPT !.present = TRUE]

\* a Retry-After header whose text float() parses as the float of class cls
RetryAfterFloat(cls, ms) ==
    [present |-> TRUE, numeric |-> TRUE, cls |-> cls, ms |-> ms]

\* float(retry_after)
ParsedRetryAfter(ra) == [cls |-> ra.cls, ms |-> ra.ms]

Min(a, b) == IF a < b THEN a ELSE b

Max(a, b) == IF a > b THEN a ELSE b

RECURSIVE Pow2(_)
Pow2(n) == IF n <= 0 THEN 1 ELSE 2 * Pow2(n - 1)

\* client._retry_delay_seconds, in ms; hasResponse is "response is not None"
_retry_delay_seconds(attempt, hasResponse, ra) ==
    IF hasResponse /\ ra.present /\ ra.numeric
    THEN PyMax(Float(0), PyMin(ParsedRetryAfter(ra), Float(BACKOFF_MAX_MS))).ms
    ELSE Min(BACKOFF_BASE_MS * Pow2(attempt - 1), BACKOFF_MAX_MS)

\* httpx.Response.is_success, which raise_for_status() tests
IsSuccess(status) == status >= 200 /\ status <= 299

BaseUrl(facade) ==
    CASE facade = "fred" -> FRED_API_BASE
      [] facade = "geofred" -> GEOFRED_API_BASE
      [] OTHER -> FRED_V2_API_BASE

\* ---------------------------------------------------------------- state

VARIABLES
    env,                \* the FRED_API_KEY environment variable: [set, value]
    _http_client,       \* client._http_client: 0 is None, else the client's id
    _http_client_lock,  \* client._http_client_lock: 0 is None, else the lock's id
    heldLocks,          \* ids of the asyncio.Lock objects currently held
    locksMade,          \* number of asyncio.Lock objects constructed
    created,            \* number of shared httpx.AsyncClient objects constructed
    live,               \* ids of the shared clients constructed and not closed
    resets,             \* number of resets done
    calls               \* per call slot: the coroutine's position and locals

vars ==
    <<env, _http_client, _http_client_lock, heldLocks, locksMade, created, live,
      resets, calls>>

Calls == 1..NCalls

max_attempts == HTTP_MAX_RETRIES + 1

\* no GET has completed since the last one was sent
NoOutcome == [kind |-> "", status |-> 0, body |-> ""]

\* what the call saw of outcome o: its kind, status and body
Seen(o) == [kind |-> o.kind, status |-> o.status, body |-> o.body]

\* One tool of fred_server.py: its facade and endpoint, the parameter its id
\* goes in, how it sends order_by ("raw": as given, "release": through
\* _normalize_release_order_by, "none": no such parameter) and its default,
\* whether it takes sort_order, the upper bound of limit (0: no limit and
\* offset parameters) and what it makes of the upstream object ("same":
\* returned as it is, "project": rows projected, "observations", "first").
Tool(name, facade, endpoint, id_key, order_by, default, sort_order, limit_high, shape) ==
    [name |-> name, facade |-> facade, endpoint |-> Text(endpoint),
     id_key |-> id_key, order_by |-> order_by, default |-> Text(default),
     sort_order |-> sort_order, limit_high |-> limit_high, shape |-> shape]

\* the call is not a tool call
NoTool == Tool("", "", "", "", "none", "", FALSE, 0, "same")

\* the arguments of a tool or normalizer call that the model varies
NoArgs == [order_by |-> PNone, sort_order |-> PNone, limit |-> 0, offset |-> 0]

\* the content of an upstream JSON object that the tools read: the list under
\* "observations", "categories" or "seriess" and "offset", each possibly absent
NoData == [has_list |-> FALSE, rows |-> <<>>, has_offset |-> FALSE, offset |-> 0]

\* One record of logger.warning / logger.error: the message and the fields of
\* "extra" (query is the snapshot safe_query, reason the redacted text of the
\* transport failure; a delay of -1: the record has no delay_seconds)
LogRecord(level, message, status_code, attempt, delay, query, reason) ==
    [level |-> level, message |-> message, status_code |-> status_code,
     attempt |-> attempt, delay |-> delay, query |-> query, reason |-> reason]

\* nothing was logged since the GET was sent
NoLog == LogRecord("", "", 0, 0, -1, EmptyDict, <<>>)

\* the (low, high) of a limit normalizer call; none for any other call
NoBounds == [low |-> 0, high |-> 0]

\* a call slot with no call in it
IdleCall ==
    [pc |-> "idle", module |-> "", entry |-> "", facade |-> "", params_json |-> "",
     endpoint |-> <<>>, params |-> EmptyDict, query |-> EmptyDict,
     headers |-> EmptyDict,
     lockRef |-> 0, client |-> 0, own |-> "none",
     attempt |-> 0, gets |-> 0, sleeps |-> <<>>, last |-> NoOutcome,
     retry_after |-> NoRetryAfter, raw |-> NoResult,
     tool |-> NoTool, args |-> NoArgs, upstream |-> NoData,
     input |-> PNone, bounds |-> NoBounds, logged |-> NoLog,
     plain503 |-> TRUE, cancelledAt |-> "", result |-> NoResult]

\* ---------------------------------------------------------------- inputs

EnvChoices ==
    {[set |-> FALSE, value |-> <<>>],
     [set |-> TRUE, value |-> <<>>],
     [set |-> TRUE, value |-> <<" ", " ">>],
     [set |-> TRUE, value |-> <<" ", "k", " ">>]}

\* caller-supplied parameter mappings
ParamChoices ==
    {[flag |-> PBool(TRUE), ignore |-> PNone],
     [api_key |-> PStr(<<"x">>), file_type |-> PStr(<<"x", "m", "l">>)],
     [file_type |-> PNone]}

EndpointChoices == {<<"/", "r", "/">>}

Facades == {"fred", "geofred", "v2"}

\* a client.py facade called directly, or wrapped by _tool_error_boundary
ClientEntries == {"facade", "boundary"}

RetryAfterChoices ==
    {NoRetryAfter,
     RetryAfterText,
     RetryAfterFloat("finite", 3000),
     RetryAfterFloat("finite", 9000)}

\* the Retry-After headers of the retry workload: also negative, zero, the
\* bounds themselves and the texts "nan", "inf", "-inf", which float() parses
WideRetryAfterChoices ==
    RetryAfterChoices
    \cup {RetryAfterFloat("finite", ms) : ms \in {-1000, 0, 8000, 8001}}
    \cup {RetryAfterFloat(cls, 0) : cls \in {"nan", "inf", "-inf"}}

FailureStatuses == {301, 400, 404, 408, 429, 500, 502, 503, 504}

BodyKinds == {"object", "array", "scalar", "null", "invalid"}

\* what one GET can end in: a transport failure (httpx.RequestError) or a
\* response with a status, a body and possibly a Retry-After header
\* msg is the form of str(exc) of a transport failure: "plain" has no URL in
\* it, the others have the request's URL with its query string
TransportError ==
    [kind |-> "transport", status |-> 0, body |-> "", ra |-> NoRetryAfter,
     msg |-> "plain"]

Response(status, body, ra) ==
    [kind |-> "response", status |-> status, body |-> body, ra |-> ra, msg |-> ""]

\* a transport failure whose str(exc) has the given form
TransportFailure(msg) == [TransportError EXCEPT !.msg = msg]

\* the forms of str(exc): no URL; the URL with api_key ahead of another
\* parameter; the URL in quotes with api_key last; the URL twice
MessageForms == {"plain", "url", "quoted", "twice"}

\* urllib's quoting of a query value, for the characters of the model
UrlEncodeChar(ch) ==
    CASE ch = "&" -> <<"%", "2", "6">>
      [] ch = " " -> <<"+">>
      [] ch = "=" -> <<"%", "3", "D">>
      [] OTHER -> <<ch>>

RECURSIVE UrlEncode(_)
UrlEncode(text) ==
    IF text = <<>> THEN <<>> ELSE UrlEncodeChar(Head(text)) \o UrlEncode(Tail(text))

\* "key=value" of the query string for the keys in the given order, joined by &
RECURSIVE QueryString(_, _)
QueryString(query, keys) ==
    IF keys = <<>> THEN <<>>
    ELSE LET pair == Text(Head(keys)) \o <<"=">> \o UrlEncode(query[Head(keys)].text)
         IN  IF Len(keys) = 1 THEN pair
             ELSE pair \o <<"&">> \o QueryString(query, Tail(keys))

\* the keys of the query in an order with api_key first, or last
RECURSIVE KeysInOrder(_)
KeysInOrder(keys) ==
    IF keys = {} THEN <<>>
    ELSE LET k == IF "api_key" \in keys THEN "api_key" ELSE CHOOSE x \in keys : TRUE
         IN  <<k>> \o KeysInOrder(keys \ {k})

Reverse(seq) == [i \in 1..Len(seq) |-> seq[Len(seq) + 1 - i]]

\* str(exc) of an httpx.RequestError raised for the call's request
TransportMessage(form, call) ==
    LET keys == KeysInOrder(DOMAIN call.query)
        first == Text("/r?") \o QueryString(call.query, keys)
        last == Text("/r?") \o QueryString(call.query, Reverse(keys))
    IN  CASE form = "url" -> Text("GET ") \o first
          [] form = "quoted" -> Text("url '") \o last \o Text("' failed")
          [] form = "twice" -> first \o Text(" -> ") \o last
          [] OTHER -> Text("timed out")

Outcomes ==
    {TransportError}
    \cup {Response(200, b, NoRetryAfter) : b \in BodyKinds}
    \cup {Response(s, "object", ra) : s \in FailureStatuses, ra \in RetryAfterChoices}

\* the reduced inputs of the concurrent workload
FewParams == {[file_type |-> PNone]}

FewOutcomes ==
    {TransportError, Response(200, "object", NoRetryAfter),
     Response(503, "object", NoRetryAfter)}

\* the outcomes of the retry workload: transient failures with every
\* Retry-After header, a transport failure, a success
RetryOutcomes ==
    {TransportError, Response(200, "object", NoRetryAfter)}
    \cup {Response(s, "object", ra) : s \in {429, 503}, ra \in WideRetryAfterChoices}

\* ------------------------------------------------------------------ Init

Init ==
    /\ env \in EnvChoices
    /\ _http_client = 0
    /\ _http_client_lock = 0
    /\ heldLocks = {}
    /\ locksMade = 0
    /\ created = 0
    /\ live = {}
    /\ resets = 0
    /\ calls = [c \in Calls |-> IdleCall]

\* ------------------------------------------- steps of client._http_get_json

\* the coroutine ends with outcome raw; a call made through
\* errors._tool_error_boundary has the wrapper applied to it, and a client
\* opened by "async with httpx.AsyncClient()" is closed on the way out
Finish(call, raw) ==
    [call EXCEPT !.pc = "done",
                 !.own = IF @ = "open" THEN "closed" ELSE @,
                 !.raw = raw,
                 !.result = IF call.entry = "boundary"
                            THEN _tool_error_boundary(raw)
                            ELSE raw]

\* "response = await client.get(url, params=query, headers=headers)" of the
\* next attempt of the loop
IssueGet(call, clientId) ==
    [call EXCEPT !.pc = "awaiting", !.client = clientId,
                 !.attempt = @ + 1, !.gets = @ + 1, !.last = NoOutcome,
                 !.retry_after = NoRetryAfter, !.logged = NoLog]

\* mutant: the next attempt is sent at once, without awaiting the sleep
Sleep_NoWait(call, delay, o) ==
    IssueGet([call EXCEPT !.sleeps = Append(@, delay)], call.client)

\* "await asyncio.sleep(delay); continue"; retry_after is the Retry-After
\* header of the response the delay was computed from
Sleep(call, delay, o) ==
    [call EXCEPT !.pc = "sleeping", !.sleeps = Append(@, delay),
                 !.retry_after = o.ra]

\* mutant: 408 Request Timeout counted as transient
IsRetryable_With408(status_code) == status_code \in RETRYABLE_STATUS_CODES \cup {408}

\* "status_code in RETRYABLE_STATUS_CODES"
IsRetryable(status_code) == status_code \in RETRYABLE_STATUS_CODES

\* mutant: off by one in the attempt budget
AttemptsRemain_OffByOne(attempt) == attempt <= max_attempts

\* "attempt < max_attempts"
AttemptsRemain(attempt) == attempt < max_attempts

UpstreamHttpError(call, status_code, retryable) ==
    _error_payload("Upstream request failed with status", "upstream_http_error",
                   "upstream_http_error", BaseUrl(call.facade), call.endpoint,
                   status_code, retryable, Details(call.attempt))

UpstreamNetworkError(call) ==
    _error_payload("Network error while contacting upstream API",
                   "upstream_network_error", "upstream_network_error",
                   BaseUrl(call.facade), call.endpoint, NoStatus, TRUE,
                   Details(call.attempt))

UpstreamInvalidJson(call) ==
    _error_payload("Failed to decode upstream JSON response",
                   "upstream_invalid_json", "upstream_invalid_json",
                   BaseUrl(call.facade), call.endpoint, NoStatus, FALSE,
                   [Details(call.attempt) EXCEPT !.reason = "JSONDecodeError"])

UpstreamInvalidPayload(call) ==
    _error_payload("Upstream response was not a JSON object",
                   "upstream_invalid_payload", "upstream_invalid_payload",
                   BaseUrl(call.facade), call.endpoint, NoStatus, FALSE,
                   Details(call.attempt))

\* except httpx.HTTPStatusError (client.py lines 139-179)
OnHTTPStatusError(call, o) ==
    LET retryable == IsRetryable(o.status)
        delay == _retry_delay_seconds(call.attempt, TRUE, o.ra)
        safe_query == _sanitize_log_params(call.query)
    IN  IF retryable /\ AttemptsRemain(call.attempt)
        THEN [Sleep(call, delay, o) EXCEPT
                !.logged = LogRecord("warning", "Retrying upstream HTTP error",
                                     o.status, call.attempt, delay, safe_query, <<>>)]
        ELSE [Finish(call, FredServerError(UpstreamHttpError(call, o.status, retryable)))
              EXCEPT
                !.logged = LogRecord("error", "Upstream HTTP request failed",
                                     o.status, call.attempt, -1, safe_query, <<>>)]

\* mutant: a transport failure does not count against the attempt budget
OnRequestError_OwnBudget(call, o) ==
    Sleep(call, _retry_delay_seconds(call.attempt, FALSE, NoRetryAfter), o)

\* except httpx.RequestError (client.py lines 180-217)
OnRequestError(call, o) ==
    LET redacted_reason == _redact_api_key_text(TransportMessage(o.msg, call))
        delay == _retry_delay_seconds(call.attempt, FALSE, NoRetryAfter)
        safe_query == _sanitize_log_params(call.query)
    IN  IF AttemptsRemain(call.attempt)
        THEN [Sleep(call, delay, o) EXCEPT
                !.logged = LogRecord("warning", "Retrying upstream network error",
                                     NoStatus, call.attempt, delay, safe_query,
                                     redacted_reason)]
        ELSE [Finish(call, FredServerError(UpstreamNetworkError(call))) EXCEPT
                !.logged = LogRecord("error", "Upstream network request failed",
                                     NoStatus, call.attempt, -1, safe_query,
                                     redacted_reason)]

\* except ValueError (client.py lines 218-237)
OnValueError(call) ==
    [Finish(call, FredServerError(UpstreamInvalidJson(call))) EXCEPT
        !.logged = LogRecord("error", "Upstream response JSON decode failed",
                             NoStatus, call.attempt, -1,
                             _sanitize_log_params(call.query), <<>>)]

\* mutant: whatever response.json() gives is returned, and an undecodable body
\* is retried like a transport failure
OnOutcome_NoShapeCheck(call, o) ==
    IF o.kind = "transport" THEN OnRequestError(call, o)
    ELSE IF ~IsSuccess(o.status) THEN OnHTTPStatusError(call, o)
    ELSE IF o.body = "invalid" THEN OnRequestError(call, o)
    ELSE Finish(call, Returned(o.body))

\* mutant: a success that follows failed attempts reports the failure
OnOutcome_ReportFailure(call, o) ==
    IF o.kind = "transport" THEN OnRequestError(call, o)
    ELSE IF ~IsSuccess(o.status) THEN OnHTTPStatusError(call, o)
    ELSE IF o.body = "invalid" THEN OnValueError(call)
    ELSE IF o.body # "object" THEN Finish(call, FredServerError(UpstreamInvalidPayload(call)))
    ELSE IF call.attempt > 1 THEN Finish(call, FredServerError(UpstreamNetworkError(call)))
    ELSE Finish(call, Returned(o.body))

\* the body of the try of one attempt, from the response on (lines 123-136),
\* and the except clauses
OnOutcome(call, o) ==
    IF o.kind = "transport" THEN OnRequestError(call, o)
    ELSE IF ~IsSuccess(o.status) THEN OnHTTPStatusError(call, o)
    ELSE IF o.body = "invalid" THEN OnValueError(call)
    ELSE IF o.body # "object" THEN Finish(call, FredServerError(UpstreamInvalidPayload(call)))
    ELSE Finish(call, Returned(o.body))

\* history: every response so far was a 503 without a Retry-After header
Plain503(o) == o.kind = "response" /\ o.status = 503 /\ ~o.ra.present

Globals ==
    <<env, _http_client, _http_client_lock, heldLocks, locksMade, created, live,
      resets>>

\* mutant: the re-check under the lock is dropped
NeedsConstruct_NoRecheck(current) == TRUE

\* "if _http_client is None" under the lock (client.py line 81)
NeedsConstruct(current) == current = 0

\* A caller invokes _fred_get, _geofred_get or _fred_v2_get of client.py,
\* directly or wrapped by _tool_error_boundary.  Runs to the first suspension:
\* the API key (lines 253, 111), the query (109-112), then _get_http_client
\* up to "async with _http_client_lock" (76-80) or, with a client at hand,
\* the first GET (122).
StartClient(c, E, F, P) ==
    /\ calls[c].pc = "idle"
    /\ \E entry \in E, f \in F, ep \in EndpointChoices, p \in P :
        LET k == _fred_api_key(env)
            call == [IdleCall EXCEPT
                        !.module = "client", !.entry = entry, !.facade = f,
                        !.endpoint = SlashStrip(ep), !.params = p,
                        !.query = IF k.ok THEN BuildQuery(p, f # "v2", k.key)
                                  ELSE EmptyDict,
                        !.headers = IF k.ok /\ f = "v2"
                                    THEN [api_key |-> PStr(k.key)]
                                    ELSE EmptyDict]
        IN  IF ~k.ok
            THEN /\ calls' = [calls EXCEPT
                                ![c] = Finish(call, Raised("ValueError", MissingKeyMsg))]
                 /\ UNCHANGED Globals
            ELSE IF _http_client # 0
            THEN /\ calls' = [calls EXCEPT ![c] = IssueGet(call, _http_client)]
                 /\ UNCHANGED Globals
            ELSE /\ _http_client_lock' =
                        IF _http_client_lock = 0 THEN locksMade + 1
                        ELSE _http_client_lock
                 /\ locksMade' =
                        IF _http_client_lock = 0 THEN locksMade + 1 ELSE locksMade
                 /\ calls' = [calls EXCEPT
                                ![c] = [call EXCEPT !.pc = "gc_lock",
                                                    !.lockRef = _http_client_lock']]
                 /\ UNCHANGED <<env, _http_client, heldLocks, created, live, resets>>

\* "async with _http_client_lock": the lock is free and the caller takes it
AcquireLock(c) ==
    /\ calls[c].pc = "gc_lock"
    /\ calls[c].lockRef \notin heldLocks
    /\ heldLocks' = heldLocks \cup {calls[c].lockRef}
    /\ calls' = [calls EXCEPT ![c].pc = "gc_locked"]
    /\ UNCHANGED <<env, _http_client, _http_client_lock, locksMade, created, live,
                   resets>>

\* Under the lock: re-check, construct (lines 81-83), release, "return
\* _http_client" (84), then the first GET of the attempt loop (122).
ConstructClient(c) ==
    /\ calls[c].pc = "gc_locked"
    /\ IF NeedsConstruct(_http_client)
       THEN /\ created' = created + 1
            /\ _http_client' = created + 1
            /\ live' = live \cup {created + 1}
       ELSE UNCHANGED <<created, _http_client, live>>
    /\ heldLocks' = heldLocks \ {calls[c].lockRef}
    /\ calls' = [calls EXCEPT ![c] = IssueGet(calls[c], _http_client')]
    /\ UNCHANGED <<env, _http_client_lock, locksMade, resets>>

\* mutant: a call that ends in a failure discards the shared client
Respond_DropsClient(c, O) ==
    /\ calls[c].pc = "awaiting"
    /\ calls[c].module = "client"
    /\ \E o \in O :
        /\ calls' = [calls EXCEPT
                        ![c] = [OnOutcome(calls[c], o) EXCEPT
                                   !.last = Seen(o),
                                   !.plain503 = calls[c].plain503 /\ Plain503(o)]]
        /\ _http_client' = IF calls'[c].raw.kind = "raised" THEN 0 ELSE _http_client
    /\ UNCHANGED <<env, _http_client_lock, heldLocks, locksMade, created, live, resets>>

\* The GET of a client.py call completes with outcome o; the loop body runs to
\* the return, the raise or the next "await asyncio.sleep(delay)".
Respond(c, O) ==
    /\ calls[c].pc = "awaiting"
    /\ calls[c].module = "client"
    /\ \E o \in O :
        calls' = [calls EXCEPT
                    ![c] = [OnOutcome(calls[c], o) EXCEPT
                               !.last = Seen(o),
                               !.plain503 = calls[c].plain503 /\ Plain503(o)]]
    /\ UNCHANGED Globals

\* The backoff sleep is over: "continue", the next attempt's GET.
Wake(c) ==
    /\ calls[c].pc = "sleeping"
    /\ calls' = [calls EXCEPT ![c] = IssueGet(calls[c], calls[c].client)]
    /\ UNCHANGED Globals

\* A cancellation is delivered to a suspended call: "except
\* asyncio.CancelledError: raise" (client.py 137-138, errors.py 48-49).
Cancel(c) ==
    /\ calls[c].pc \in {"gc_lock", "awaiting", "sleeping"}
    /\ calls' = [calls EXCEPT
                    ![c] = [Finish(calls[c], Cancelled) EXCEPT
                               !.cancelledAt = calls[c].pc]]
    /\ UNCHANGED Globals

\* ------------------------------------------------- steps of fred_server.py

\* what json.loads(params_json) of a passthrough tool can be
ParamsJsonKinds == {"object", "invalid", "array"}

\* fred_server._parse_json_object and the "except ValueError" of the
\* passthrough tools (lines 127-130): the dict returned without a request
PassthroughRejects(jsonKind) ==
    IF jsonKind = "invalid" THEN BareError("Invalid JSON: <decoder message>")
    ELSE BareError("JSON value must be an object")

\* A caller invokes a facade of fred_server.py (_fred_get, _geofred_get,
\* _fred_v2_get), a passthrough tool (fred_request, geofred_request,
\* fred_v2_request) or a tool that returns the facade's result as it is
\* (get_release, get_category_children, ...).  fred_server._http_get_json
\* (lines 82-99) builds the query, opens a client of its own and sends the GET.
StartServer(c, P) ==
    /\ calls[c].pc = "idle"
    /\ \E entry \in {"facade", "passthrough", "tool"}, f \in Facades,
          ep \in EndpointChoices, p \in P, jsonKind \in ParamsJsonKinds :
        LET k == _fred_api_key(env)
            call == [IdleCall EXCEPT
                        !.module = "server", !.entry = entry, !.facade = f,
                        !.params_json = IF entry = "passthrough" THEN jsonKind
                                        ELSE "",
                        !.endpoint = SlashStrip(ep),
                        !.params = IF jsonKind = "object" THEN p ELSE EmptyDict]
            sent == [call EXCEPT
                        !.query = BuildQuery(p, f # "v2", k.key),
                        !.headers = IF f = "v2" THEN [api_key |-> PStr(k.key)]
                                    ELSE EmptyDict,
                        !.own = "open"]
        IN  /\ entry # "passthrough" => jsonKind = "object"
            /\ calls' = [calls EXCEPT ![c] =
                    IF jsonKind # "object"
                    THEN Finish(call, ReturnedError(PassthroughRejects(jsonKind)))
                    ELSE IF ~k.ok
                    THEN Finish(call, Raised("ValueError", MissingKeyMsg))
                    ELSE IssueGet(sent, 0)]
    /\ UNCHANGED Globals

\* fred_server._http_get_json lines 95-99: raise_for_status() and
\* "return response.json()"; nothing is caught and nothing is retried
FetchedServer(o) ==
    IF o.kind = "transport" THEN Raised("RequestError", "transport")
    ELSE IF ~IsSuccess(o.status) THEN Raised("HTTPStatusError", "status")
    ELSE IF o.body = "invalid" THEN Raised("JSONDecodeError", "decode")
    ELSE Returned(o.body)

\* the call ends with what _http_get_json returned or raised
OnOutcomeServer(call, o) == Finish(call, FetchedServer(o))

\* The GET of a fred_server.py call completes with outcome o.
RespondServer(c, O) ==
    /\ calls[c].pc = "awaiting"
    /\ calls[c].module = "server"
    /\ calls[c].tool = NoTool
    /\ \E o \in O :
        calls' = [calls EXCEPT
                    ![c] = [OnOutcomeServer(calls[c], o) EXCEPT
                               !.last = Seen(o),
                               !.plain503 = calls[c].plain503 /\ Plain503(o)]]
    /\ UNCHANGED Globals

\* ------------------------------------------- the tools of fred_server.py

\* the tools that normalize or reshape: the two single-entity lookups, the
\* observation listing, the sixteen tools that take order_by, and two of
\* those that take sort_order alone
Tools ==
    {Tool("get_category", "fred", "category", "category_id", "none", "", FALSE, 0, "first"),
     Tool("get_series", "fred", "series", "series_id", "none", "", FALSE, 0, "first"),
     Tool("get_observations", "fred", "series/observations", "series_id", "none", "", TRUE, 100000, "observations"),
     Tool("get_category_series", "fred", "category/series", "category_id", "raw", "popularity", TRUE, 1000, "project"),
     Tool("get_category_tags", "fred", "category/tags", "category_id", "raw", "series_count", TRUE, 1000, "same"),
     Tool("get_category_related_tags", "fred", "category/related_tags", "category_id", "raw", "series_count", TRUE, 1000, "same"),
     Tool("get_releases", "fred", "releases", "", "release", "release_id", TRUE, 1000, "project"),
     Tool("get_release_series", "fred", "release/series", "release_id", "raw", "popularity", TRUE, 1000, "project"),
     Tool("get_release_tags", "fred", "release/tags", "release_id", "raw", "series_count", TRUE, 1000, "same"),
     Tool("get_release_related_tags", "fred", "release/related_tags", "release_id", "raw", "series_count", TRUE, 1000, "same"),
     Tool("search_series", "fred", "series/search", "search_text", "raw", "search_rank", TRUE, 1000, "project"),
     Tool("search_series_by_tags", "fred", "series/search/tags", "series_search_text", "raw", "series_count", TRUE, 1000, "same"),
     Tool("search_series_related_tags", "fred", "series/search/related_tags", "series_search_text", "raw", "series_count", TRUE, 1000, "same"),
     Tool("get_series_tags", "fred", "series/tags", "series_id", "raw", "series_count", TRUE, 1000, "same"),
     Tool("get_sources", "fred", "sources", "", "raw", "source_id", TRUE, 1000, "same"),
     Tool("get_source_releases", "fred", "source/releases", "source_id", "raw", "release_id", TRUE, 1000, "same"),
     Tool("get_tags", "fred", "tags", "", "raw", "series_count", TRUE, 1000, "same"),
     Tool("get_related_tags", "fred", "related_tags", "tag_names", "raw", "series_count", TRUE, 1000, "same"),
     Tool("get_tag_series", "fred", "tags/series", "tag_names", "raw", "popularity", TRUE, 1000, "project"),
     Tool("get_releases_dates", "fred", "releases/dates", "", "none", "", TRUE, 1000, "same"),
     Tool("get_release_observations_v2", "v2", "release/observations", "release_id", "none", "", TRUE, 500000, "same")}

\* the value of the tool's id argument (series_id and the texts are str, the
\* other ids int)
ToolId(t) ==
    IF t.id_key \in {"category_id", "release_id", "source_id"}
    THEN PInt(10) ELSE PStr(Text("GDP"))

\* inputs: the values a caller passes for sort_order, order_by, limit, offset
SortOrderChoices(t) ==
    IF ~t.sort_order THEN {PNone}
    ELSE {PStr(Text("asc")), PStr(Text(" AsC ")), PStr(Text("DESC")),
          PStr(Text("UP")), PStr(<<>>), PNone}

OrderByChoices(t) ==
    IF t.order_by = "none" THEN {PNone}
    ELSE {PStr(t.default), PStr(Text(" Name ")), PStr(Text("invalid-value")),
          PStr(Text("POPULARITY"))}

LimitChoices(t) == IF t.limit_high = 0 THEN {0} ELSE {0, 20, t.limit_high + 1}

OffsetChoices(t) == IF t.limit_high = 0 THEN {0} ELSE {-5, 0, 20}

\* The dict a tool passes to its facade, entry by entry: [ok, params]; not ok
\* is the AttributeError of a normalizer given a value that is not a str.  An
\* optional parameter the caller left out is there with the value None.
ToolParams(t, args) ==
    LET withId == IF t.id_key = "" THEN EmptyDict
                  ELSE DictSet(EmptyDict, t.id_key, ToolId(t))
        paged == IF t.limit_high = 0 THEN withId
                 ELSE DictSet(DictSet(withId, "limit",
                                      PInt(_clamp(args.limit, 1, t.limit_high))),
                              "offset", PInt(_non_negative(args.offset)))
        ob == _normalize_release_order_by(args.order_by)
        ordered == CASE t.order_by = "raw" -> DictSet(paged, "order_by", args.order_by)
                     [] t.order_by = "release" -> DictSet(paged, "order_by", PStr(ob.text))
                     [] OTHER -> paged
        so == _normalize_sort_order_server(args.sort_order)
        sorted == IF t.sort_order THEN DictSet(ordered, "sort_order", PStr(so.text))
                  ELSE ordered
        optional == IF t.facade = "v2" THEN "next_cursor" ELSE "realtime_start"
    IN  [ok |-> (t.order_by = "release" => ob.ok) /\ (t.sort_order => so.ok),
         params |-> DictSet(sorted, optional, PNone)]

\* A caller invokes a tool.  The dict of parameters is built (the normalizers
\* run), then the facade and fred_server._http_get_json run to the GET.
StartTool(c) ==
    /\ calls[c].pc = "idle"
    /\ \E t \in Tools :
       \E so \in SortOrderChoices(t), ob \in OrderByChoices(t),
          lim \in LimitChoices(t), off \in OffsetChoices(t) :
        LET args == [order_by |-> ob, sort_order |-> so, limit |-> lim, offset |-> off]
            built == ToolParams(t, args)
            k == _fred_api_key(env)
            call == [IdleCall EXCEPT
                        !.module = "server", !.entry = "tool", !.tool = t,
                        !.args = args, !.facade = t.facade,
                        !.endpoint = SlashStrip(t.endpoint)]
            sent == [call EXCEPT
                        !.params = built.params,
                        !.query = BuildQuery(built.params, t.facade # "v2", k.key),
                        !.headers = IF t.facade = "v2" THEN [api_key |-> PStr(k.key)]
                                    ELSE EmptyDict,
                        !.own = "open"]
        IN  calls' = [calls EXCEPT ![c] =
                IF ~built.ok
                THEN Finish(call, Raised("AttributeError", "no attribute 'strip'"))
                ELSE IF ~k.ok
                THEN Finish(call, Raised("ValueError", MissingKeyMsg))
                ELSE IssueGet(sent, 0)]
    /\ UNCHANGED Globals

\* rows of the upstream lists: observations with the "." sentinel, with a
\* value, and with no "value" key; entities of a single-entity lookup
ObservationRows ==
    {[date |-> PStr(Text("2024-01-01")), value |-> PStr(Text("."))],
     [date |-> PStr(Text("2024-02-01")), value |-> PStr(Text("1.23"))],
     [date |-> PStr(Text("2024-03-01"))]}

EntityRows == {[id |-> PStr(Text("a"))], [id |-> PStr(Text("b"))]}

\* the sequences over S of length at most n
SeqsUpTo(S, n) == UNION {[1..k -> S] : k \in 0..n}

\* a response or transport failure as a tool call sees it: data is the content
\* of a JSON object body
ToolOutcome(kind, status, body, data) ==
    [kind |-> kind, status |-> status, body |-> body, ra |-> NoRetryAfter,
     data |-> data]

\* a 200 response whose body is a JSON object with the given content
ToolResponse(data) == ToolOutcome("response", 200, "object", data)

\* what the GET of a tool call can end in: a transport failure, a 503, a 200
\* with an undecodable body, an array, null, an object without the list the
\* tool reads, or an object with it
ToolOutcomes(t) ==
    {ToolOutcome("transport", 0, "", NoData),
     ToolOutcome("response", 503, "object", NoData),
     ToolOutcome("response", 200, "invalid", NoData),
     ToolOutcome("response", 200, "array", NoData),
     ToolOutcome("response", 200, "null", NoData),
     ToolResponse(NoData)}
    \cup CASE t.shape = "observations" ->
                {ToolResponse([has_list |-> TRUE, rows |-> r, has_offset |-> ho,
                               offset |-> IF ho THEN 120 ELSE 0]) :
                    r \in SeqsUpTo(ObservationRows, MaxRows), ho \in BOOLEAN}
            [] t.shape = "first" ->
                {ToolResponse([NoData EXCEPT !.has_list = TRUE, !.rows = r]) :
                    r \in SeqsUpTo(EntityRows, MaxRows)}
            [] OTHER -> {}

\* mutant: the "." sentinel is passed through
CleanObservation_KeepDot(row) ==
    [date |-> DictGet(row, "date"), value |-> DictGet(row, "value")]

\* fred_server.get_observations lines 641-644, one row
CleanObservation(row) ==
    [date |-> DictGet(row, "date"),
     value |-> IF DictGet(row, "value") = PStr(Text(".")) THEN PNone
               ELSE DictGet(row, "value")]

\* fred_server.get_observations lines 640-650: the dict returned
ObservationsResult(t, args, data) ==
    LET observations == IF data.has_list THEN data.rows ELSE <<>>
        cleaned == [i \in 1..Len(observations) |-> CleanObservation(observations[i])]
    IN  [series_id |-> ToolId(t),
         count |-> Len(cleaned),
         offset |-> IF data.has_offset THEN data.offset ELSE args.offset,
         observations |-> cleaned]

\* fred_server.get_category lines 173-176 and get_series lines 582-585
FirstOrNotFound(t, data) ==
    LET rows == IF data.has_list THEN data.rows ELSE <<>>
    IN  IF rows = <<>>
        THEN ReturnedError(BareError(IF t.name = "get_category"
                                     THEN "Category '<category_id>' not found"
                                     ELSE "Series '<series_id>' not found"))
        ELSE ReturnedValue("object", rows[1])

\* what the tool makes of the facade's outcome: an exception of the facade
\* propagates; "same" tools return the value as it is; the others call
\* data.get, an AttributeError on a value that is not a dict
ToolResult(t, args, o) ==
    LET fetched == FetchedServer(o)
    IN  CASE fetched.kind # "returned" -> fetched
          [] t.shape = "same" -> fetched
          [] o.body # "object" ->
                Raised("AttributeError", "no attribute 'get'")
          [] t.shape = "observations" ->
                ReturnedValue("object", ObservationsResult(t, args, o.data))
          [] t.shape = "first" -> FirstOrNotFound(t, o.data)
          [] OTHER -> Returned("object")

\* The GET of a tool call completes with outcome o; the tool runs to its end.
RespondTool(c) ==
    /\ calls[c].pc = "awaiting"
    /\ calls[c].module = "server"
    /\ calls[c].tool # NoTool
    /\ \E o \in ToolOutcomes(calls[c].tool) :
        calls' = [calls EXCEPT
                    ![c] = [Finish(calls[c], ToolResult(calls[c].tool, calls[c].args, o))
                            EXCEPT !.last = Seen(o), !.upstream = o.data,
                                   !.plain503 = calls[c].plain503 /\ Plain503(o)]]
    /\ UNCHANGED Globals

\* --------------------------------------- the normalizers of validation.py

\* the endpoints of the table and some that have no rule: an endpoint of
\* another tool, a key in another case, a key with a trailing slash, the empty
\* text
NormalizerEndpoints ==
    DOMAIN ORDER_BY_RULES
    \cup {Text("series/observations"), Text("Releases"), Text("tags/"), <<>>}

\* A caller applies validation._normalize_sort_order or
\* validation._normalize_order_by to a value.
CallNormalizer(c) ==
    /\ calls[c].pc = "idle"
    /\ \/ \E v \in SortOrderChoices(Tool("", "", "", "", "none", "", TRUE, 0, "same"))
                    \cup {PBool(TRUE)} :
            calls' = [calls EXCEPT ![c] =
                Finish([IdleCall EXCEPT !.module = "validation",
                                        !.entry = "_normalize_sort_order",
                                        !.args = [NoArgs EXCEPT !.sort_order = v]],
                       ReturnedValue("str", PStr(_normalize_sort_order(v))))]
       \/ \E ep \in NormalizerEndpoints :
          \E v \in {PStr(Text(" Name ")), PStr(Text("invalid-value")),
                     PStr(Text("POPULARITY")), PStr(Text("search_rank")), PNone} :
            LET out == _normalize_order_by(ep, v)
            IN  calls' = [calls EXCEPT ![c] =
                    Finish([IdleCall EXCEPT !.module = "validation",
                                            !.entry = "_normalize_order_by",
                                            !.endpoint = ep,
                                            !.args = [NoArgs EXCEPT !.order_by = v]],
                           IF out.ok THEN ReturnedValue("str", PStr(out.text))
                           ELSE Raised("ValueError", "Unsupported order_by endpoint"))]
    /\ UNCHANGED Globals

\* the values a caller passes as limit or offset: missing, texts that are not
\* numbers, a text of digits, ints below, inside and above the bounds, floats
\* with a fraction, nan and the infinities
PagingChoices ==
    {PNone, PStr(Text("abc")), PStr(<<>>), PStr(Text(" 12 "))}
    \cup {PInt(n) : n \in {-5, 0, 1, 20, 1001, 600000}}
    \cup {PFloat("finite", 37), PFloat("finite", -37), PFloat("nan", 0),
          PFloat("inf", 0), PFloat("-inf", 0)}

\* bounds pairs: those of the tools and a pair with low = high
BoundsChoices ==
    {[low |-> 1, high |-> h] : h \in {1000, 10000, 100000, 500000}}
    \cup {[low |-> 5, high |-> 5]}

\* the outcome of a normalizer call as the result of the call
NormalizerResult(out) ==
    IF out.ok THEN ReturnedValue(out.value.type, out.value)
    ELSE Raised(out.exc, "")

\* A caller applies a limit normalizer (validation._normalize_limit,
\* fred_server._clamp) or an offset normalizer (validation._normalize_offset,
\* fred_server._non_negative) to a value.
CallPaging(c) ==
    /\ calls[c].pc = "idle"
    /\ \E v \in PagingChoices :
        \/ \E b \in BoundsChoices :
            \/ calls' = [calls EXCEPT ![c] =
                    Finish([IdleCall EXCEPT !.module = "validation",
                                            !.entry = "_normalize_limit",
                                            !.input = v, !.bounds = b],
                           NormalizerResult(_normalize_limit(v, b.low, b.high)))]
            \/ calls' = [calls EXCEPT ![c] =
                    Finish([IdleCall EXCEPT !.module = "server",
                                            !.entry = "_clamp",
                                            !.input = v, !.bounds = b],
                           NormalizerResult(_clamp_server(v, b.low, b.high)))]
        \/ calls' = [calls EXCEPT ![c] =
                Finish([IdleCall EXCEPT !.module = "validation",
                                        !.entry = "_normalize_offset", !.input = v],
                       NormalizerResult(_normalize_offset(v)))]
        \/ calls' = [calls EXCEPT ![c] =
                Finish([IdleCall EXCEPT !.module = "server",
                                        !.entry = "_non_negative", !.input = v],
                       NormalizerResult(_non_negative_server(v)))]
    /\ UNCHANGED Globals

\* the values of a caller's mapping: None, the booleans, texts (one of them
\* "true", another with capitals), an int
ValueChoices ==
    {PNone, PBool(TRUE), PBool(FALSE), PStr(Text("true")), PStr(Text("GDP")),
     PInt(0)}

\* the mappings over the keys of the test, each key absent or with a value
MappingChoices ==
    UNION {[keys -> ValueChoices] : keys \in SUBSET {"flag", "ignore"}}

\* A caller applies _clean_params to a mapping, and again to what it returned
\* (params is the input, query the first output, the value returned the
\* second).
CallCleanParams(c) ==
    /\ calls[c].pc = "idle"
    /\ \E m \in MappingChoices :
        LET query == _clean_params(m)
        IN  calls' = [calls EXCEPT ![c] =
                Finish([IdleCall EXCEPT !.module = "client",
                                        !.entry = "_clean_params",
                                        !.params = m, !.query = query],
                       ReturnedValue("object", _clean_params(query)))]
    /\ UNCHANGED Globals

\* --------------------------------------- errors._tool_error_boundary alone

\* the Error Payloads a wrapped coroutine's FredServerError can carry
WrappedPayloads ==
    {_error_payload("Upstream request failed with status", "upstream_http_error",
                    "upstream_http_error", FRED_API_BASE, <<"/", "r">>, 503, TRUE,
                    Details(4)),
     _error_payload("Failed to decode upstream JSON response",
                    "upstream_invalid_json", "upstream_invalid_json",
                    FRED_V2_API_BASE, <<"r">>, NoStatus, FALSE,
                    [Details(1) EXCEPT !.reason = "JSONDecodeError"])}

\* classes of Exception that are neither FredServerError nor ValueError
OtherFaults == {"KeyError", "AttributeError", "HTTPStatusError"}

FaultMessages == {"secret-1", "secret-2"}

\* how "await func(*args, **kwargs)" can end: a returned value, a
\* FredServerError, a ValueError (or a subclass), another Exception, a
\* cancellation
WrappedOutcomes ==
    {Returned(b) : b \in {"object", "array"}}
    \cup {FredServerError(pl) : pl \in WrappedPayloads}
    \cup {Raised(e, m) : e \in {"ValueError", "JSONDecodeError"}, m \in FaultMessages}
    \cup {Raised(e, m) : e \in OtherFaults, m \in FaultMessages}
    \cup {Cancelled}

\* A coroutine wrapped by _tool_error_boundary is awaited and ends with the
\* outcome raw (errors.py lines 45-65).
CallWrapped(c) ==
    /\ calls[c].pc = "idle"
    /\ \E raw \in WrappedOutcomes :
        calls' = [calls EXCEPT
                    ![c] = Finish([IdleCall EXCEPT !.module = "wrapped",
                                                   !.entry = "boundary"], raw)]
    /\ UNCHANGED Globals

\* ------------------------------------------------------------ environment

\* the caller takes the outcome; the slot is free for another call
Return(c) ==
    /\ calls[c].pc = "done"
    /\ calls' = [calls EXCEPT ![c] = IdleCall]
    /\ UNCHANGED Globals

\* tests/conftest.py _reset_shared_http_client: close the shared client and set
\* both module globals back to None; it runs between tests, with no call in
\* flight
Reset ==
    /\ resets < MaxResets
    /\ \A c \in Calls : calls[c].pc = "idle"
    /\ live' = live \ {_http_client}
    /\ _http_client' = 0
    /\ _http_client_lock' = 0
    /\ resets' = resets + 1
    /\ UNCHANGED <<env, heldLocks, locksMade, created, calls>>

\* ------------------------------------------------------- specifications

\* one call at a time, every input and every upstream outcome
Next ==
    \/ \E c \in {1} :
        \/ StartClient(c, ClientEntries, Facades, ParamChoices)
        \/ AcquireLock(c)
        \/ ConstructClient(c)
        \/ Respond(c, Outcomes)
        \/ Wake(c)
        \/ Cancel(c)
        \/ StartServer(c, ParamChoices)
        \/ RespondServer(c, Outcomes)
        \/ Return(c)
    \/ Reset

Spec == Init /\ [][Next]_vars

\* NCalls calls in flight together over the shared client, reduced inputs
InitConc ==
    /\ Init
    /\ _fred_api_key(env).ok

NextConc ==
    \/ \E c \in Calls :
        \/ StartClient(c, {"facade"}, {"fred"}, FewParams)
        \/ AcquireLock(c)
        \/ ConstructClient(c)
        \/ Respond(c, FewOutcomes)
        \/ Wake(c)
        \/ Return(c)
    \/ Reset

SpecConc == InitConc /\ [][NextConc]_vars

\* one client.py call at a time against an upstream that fails transiently
\* with every kind of Retry-After header
NextRetry ==
    \E c \in {1} :
        \/ StartClient(c, {"facade"}, {"fred"}, FewParams)
        \/ AcquireLock(c)
        \/ ConstructClient(c)
        \/ Respond(c, RetryOutcomes)
        \/ Wake(c)
        \/ Return(c)

SpecRetry == InitConc /\ [][NextRetry]_vars

\* keys that occur in no other text of a request: plain, with the characters
\* a query string quotes, with whitespace around it
LogEnvChoices ==
    {[set |-> TRUE, value |-> Text("Zq9")],
     [set |-> TRUE, value |-> Text("Z&9=")],
     [set |-> TRUE, value |-> Text(" Z 9 ")]}

InitLog ==
    /\ env \in LogEnvChoices
    /\ _http_client = 0
    /\ _http_client_lock = 0
    /\ heldLocks = {}
    /\ locksMade = 0
    /\ created = 0
    /\ live = {}
    /\ resets = 0
    /\ calls = [c \in Calls |-> IdleCall]

\* the outcomes of the logging workload: transport failures with every form
\* of message, a transient and a permanent failure status, a success, an
\* undecodable body and an array
LogOutcomes ==
    {TransportFailure(form) : form \in MessageForms}
    \cup {Response(503, "object", NoRetryAfter), Response(404, "object", NoRetryAfter)}
    \cup {Response(200, b, NoRetryAfter) : b \in {"object", "invalid", "array"}}

\* one client.py call at a time with a key of LogEnvChoices; what each step
\* logs is in the call's logged field
NextLog ==
    \E c \in {1} :
        \/ StartClient(c, ClientEntries, Facades, ParamChoices)
        \/ AcquireLock(c)
        \/ ConstructClient(c)
        \/ Respond(c, LogOutcomes)
        \/ Wake(c)
        \/ Return(c)

SpecLog == InitLog /\ [][NextLog]_vars

\* one client.py call at a time with the key set, every upstream outcome.  The
\* GET ends (HTTP_TIMEOUT_SECONDS turns a silent upstream into a transport
\* failure), a sleep of at most BACKOFF_MAX_SECONDS ends, and the lock is
\* released by whoever holds it: each step of a call is taken once it can be.
NextBudget ==
    \E c \in {1} :
        \/ StartClient(c, ClientEntries, {"fred"}, FewParams)
        \/ AcquireLock(c)
        \/ ConstructClient(c)
        \/ Respond(c, Outcomes)
        \/ Wake(c)
        \/ Return(c)

FairBudget ==
    \A c \in {1} :
        /\ WF_vars(AcquireLock(c))
        /\ WF_vars(ConstructClient(c))
        /\ WF_vars(Respond(c, Outcomes))
        /\ WF_vars(Wake(c))

SpecBudget == InitConc /\ [][NextBudget]_vars /\ FairBudget

\* coroutines wrapped by _tool_error_boundary, whatever they end with
NextBoundary ==
    \E c \in Calls :
        \/ CallWrapped(c)
        \/ Return(c)

SpecBoundary == Init /\ [][NextBoundary]_vars

\* one tool or normalizer call at a time, every input and upstream content
NextTools ==
    \E c \in {1} :
        \/ StartTool(c)
        \/ RespondTool(c)
        \/ CallNormalizer(c)
        \/ CallPaging(c)
        \/ CallCleanParams(c)
        \/ Return(c)

SpecTools == Init /\ [][NextTools]_vars

\* ---------------------------------------------------------------- claims

\* the call ended by raising FredServerError or, through the tool boundary, by
\* returning the Error Payload
FailsWithPayload(call) ==
    \/ call.result.kind = "raised" /\ call.result.exc = "FredServerError"
    \/ call.result.kind = "returned" /\ call.result.body = "error"

\* the call went through _http_get_json and was not cancelled
Fetched(call) == call.pc = "done" /\ call.gets >= 1 /\ call.cancelledAt = ""

V1Facades == {"fred", "geofred"}

\* C1: a fetch through a v1 facade whose every attempt is answered 503 without
\* Retry-After issues exactly 4 GETs, sleeps 0.5 s, 1 s, 2 s in that order and
\* fails with code upstream_http_error, status_code 503, retryable true.
\* Stated for the facades of both modules (the test calls fred_server._fred_get).
C1_Retries503 ==
    \A c \in Calls :
        LET call == calls[c]
        IN  (Fetched(call) /\ call.entry = "facade" /\ call.facade \in V1Facades
                /\ call.plain503)
            => /\ call.gets = 4
               /\ call.sleeps = <<500, 1000, 2000>>
               /\ FailsWithPayload(call)
               /\ call.result.payload.code = "upstream_http_error"
               /\ call.result.payload.status_code = 503
               /\ call.result.payload.retryable = TRUE

\* C1 restricted to fred_mcp/client.py, where it holds
C1_Retries503Client ==
    \A c \in Calls :
        LET call == calls[c]
        IN  (Fetched(call) /\ call.module = "client" /\ call.entry = "facade"
                /\ call.facade \in V1Facades /\ call.plain503)
            => /\ call.gets = 4
               /\ call.sleeps = <<500, 1000, 2000>>
               /\ FailsWithPayload(call)
               /\ call.result.payload.code = "upstream_http_error"
               /\ call.result.payload.status_code = 503
               /\ call.result.payload.retryable = TRUE

\* C2: every tool operation of fred_server.py completes by returning an
\* upstream JSON object or an Error Payload with both "error" and
\* "error_details"; nothing but a cancellation is raised to the caller.
C2_ToolsReturnValue ==
    \A c \in Calls :
        LET call == calls[c]
        IN  (call.pc = "done" /\ call.entry \in {"passthrough", "tool"})
            => \/ call.result.kind = "cancelled"
               \/ /\ call.result.kind = "returned"
                  /\ \/ call.result.body = "object"
                     \/ /\ call.result.body = "error"
                        /\ call.result.payload.keys = {"error", "error_details"}

\* C3: an _http_get_json call that is not cancelled ends by returning a JSON
\* object (never an array, a scalar or null) or by raising FredServerError
\* with an Error Payload.
C3_ObjectOrFredServerError ==
    \A c \in Calls :
        LET call == calls[c]
        IN  (Fetched(call) /\ call.entry = "facade")
            => \/ call.result.kind = "returned" /\ call.result.body = "object"
               \/ /\ call.result.kind = "raised"
                  /\ call.result.exc = "FredServerError"
                  /\ call.result.payload.keys = {"error", "error_details"}

\* C3 restricted to fred_mcp/client.py, where it holds
C3_ObjectOrFredServerErrorClient ==
    \A c \in Calls :
        LET call == calls[c]
        IN  (Fetched(call) /\ call.module = "client" /\ call.entry = "facade")
            => \/ call.result.kind = "returned" /\ call.result.body = "object"
               \/ /\ call.result.kind = "raised"
                  /\ call.result.exc = "FredServerError"
                  /\ call.result.payload.keys = {"error", "error_details"}

\* C4: concurrent callers of _get_http_client that all find the shared client
\* uninitialized construct exactly one client and all receive it; at most one
\* shared client is live at a time, and the k-th construction needs k-1 resets.
C4_OneSharedClient ==
    /\ created <= resets + 1
    /\ Cardinality(live) <= 1
    /\ live = IF _http_client = 0 THEN {} ELSE {_http_client}
    /\ _http_client \in 0..created
    /\ \A c \in Calls :
        (calls[c].module = "client" /\ calls[c].pc \in {"awaiting", "sleeping"})
            => calls[c].client # 0 /\ calls[c].client = _http_client

\* C4 witness: every caller found the client uninitialized (each went to the
\* lock), one client was constructed and all of them hold it
C4_Witness ==
    /\ created = 1
    /\ \A c \in Calls :
        /\ calls[c].pc = "awaiting"
        /\ calls[c].lockRef # 0
        /\ calls[c].client = 1

\* C5: a cancellation delivered while the call is suspended on the GET or on a
\* backoff sleep leaves the call as a cancellation (no Error Payload, no
\* returned value), also through _tool_error_boundary, and the call issues no
\* further request and sleeps no more.
C5_CancellationPropagates ==
    /\ [](\A c \in Calls :
            calls[c].cancelledAt \in {"awaiting", "sleeping"}
                => /\ calls[c].pc = "done"
                   /\ calls[c].result.kind = "cancelled"
                   /\ calls[c].result.payload = NoPayload
                   /\ calls[c].result.body = "")
    /\ [][\A c \in Calls :
            calls[c].cancelledAt \in {"awaiting", "sleeping"}
                => \/ calls'[c] = calls[c]
                   \/ calls'[c] = IdleCall]_vars

\* C5 witness: a call wrapped by the tool boundary was cancelled in a backoff
\* sleep, another state has one cancelled during the GET
C5_Witness ==
    \E c \in Calls :
        /\ calls[c].cancelledAt = "sleeping"
        /\ calls[c].entry = "boundary"
        /\ calls[c].module = "client"
        /\ Len(calls[c].sleeps) = 2

\* the configured API key
ConfiguredKey == PStr(<<"k">>)

\* C6: for every caller-supplied mapping, a request of the v2 facade has the
\* API key in the api_key header and no api_key query parameter, and a request
\* of a v1 facade has the configured key as the api_key query parameter and no
\* api_key header.
C6_KeyPlacement ==
    \A c \in Calls :
        LET call == calls[c]
        IN  call.gets >= 1
            => IF call.facade = "v2"
               THEN /\ "api_key" \in DOMAIN call.headers
                    /\ call.headers["api_key"] = ConfiguredKey
                    /\ "api_key" \notin DOMAIN call.query
               ELSE /\ "api_key" \in DOMAIN call.query
                    /\ call.query["api_key"] = ConfiguredKey
                    /\ "api_key" \notin DOMAIN call.headers

\* FRED_API_KEY is unset, empty or only whitespace
EnvBlank == ~env.set \/ \A i \in 1..Len(env.value) : env.value[i] = " "

\* C7: with FRED_API_KEY missing, empty or blank, a facade call fails with
\* ValueError("Missing FRED_API_KEY environment variable"), which the tool
\* boundary reports as validation_error, before any GET is issued and before
\* the shared client is obtained or created.
C7_MissingKeyFailsFirst ==
    EnvBlank =>
        /\ created = 0
        /\ locksMade = 0
        /\ _http_client = 0
        /\ \A c \in Calls :
            LET call == calls[c]
            IN  /\ call.gets = 0
                /\ call.client = 0
                /\ call.own = "none"
                /\ call.pc \in {"idle", "done"}
                /\ (call.pc = "done" /\ call.entry = "facade")
                    => /\ call.result.kind = "raised"
                       /\ call.result.exc = "ValueError"
                       /\ call.result.msg = "Missing FRED_API_KEY environment variable"
                /\ (call.pc = "done" /\ call.entry = "boundary")
                    => /\ call.result.kind = "returned"
                       /\ call.result.payload.code = "validation_error"
                       /\ call.result.payload.error =
                            "Missing FRED_API_KEY environment variable"

\* C7 witness: a boundary-wrapped v2 call made with a whitespace-only key
C7_Witness ==
    /\ env.set
    /\ env.value # <<>>
    /\ EnvBlank
    /\ \E c \in Calls :
        /\ calls[c].pc = "done"
        /\ calls[c].entry = "boundary"
        /\ calls[c].facade = "v2"
        /\ calls[c].result.payload.code = "validation_error"

TransientStatuses == {429, 500, 502, 503, 504}

IsFailureStatus(status) == status < 200 \/ status > 299

\* C8: a failure status outside {429, 500, 502, 503, 504} ends the call at
\* that attempt with no sleep and no retry, with code upstream_http_error, the
\* received status and retryable false; an upstream_http_error payload is
\* retryable exactly when its status is in the set.
C8_NonRetryableStops ==
    \A c \in Calls :
        LET call == calls[c]
            pl == call.result.payload
        IN  call.module = "client" =>
            /\ (call.last.kind = "response" /\ IsFailureStatus(call.last.status)
                    /\ call.last.status \notin TransientStatuses)
                => /\ call.pc = "done"
                   /\ call.cancelledAt = ""
                   /\ FailsWithPayload(call)
                   /\ pl.code = "upstream_http_error"
                   /\ pl.status_code = call.last.status
                   /\ pl.retryable = FALSE
                   /\ pl.details.attempt = call.attempt
                   /\ call.gets = call.attempt
                   /\ Len(call.sleeps) = call.attempt - 1
            /\ (call.pc = "done" /\ pl.code = "upstream_http_error")
                => (pl.retryable <=> pl.status_code \in TransientStatuses)

\* C8 witness: a 404 on the second attempt, with two attempts left
C8_Witness ==
    \E c \in Calls :
        /\ calls[c].module = "client"
        /\ calls[c].pc = "done"
        /\ calls[c].last.status = 404
        /\ calls[c].attempt = 2
        /\ calls[c].result.payload.retryable = FALSE

\* C9: after a transport failure the call sleeps (and retries) when fewer than
\* 4 attempts were made and fails with upstream_network_error, retryable true,
\* when it was the 4th; no upstream_network_error payload is produced with
\* retryable false or before the 4th attempt.
C9_TransportRetries ==
    \A c \in Calls :
        LET call == calls[c]
            pl == call.result.payload
        IN  call.module = "client" =>
            /\ call.last.kind = "transport"
                => IF call.attempt < 4
                   THEN /\ call.pc = "sleeping" \/ call.cancelledAt = "sleeping"
                        /\ Len(call.sleeps) = call.attempt
                        /\ pl = NoPayload
                   ELSE /\ call.attempt = 4
                        /\ call.pc = "done"
                        /\ FailsWithPayload(call)
                        /\ pl.code = "upstream_network_error"
                        /\ pl.retryable = TRUE
            /\ pl.code = "upstream_network_error"
                => /\ pl.retryable = TRUE
                   /\ pl.details.attempt = 4
                   /\ call.gets = 4
                   /\ call.last.kind = "transport"

\* C9 witness: the 4th attempt failed at the transport level
C9_Witness ==
    \E c \in Calls :
        /\ calls[c].module = "client"
        /\ calls[c].pc = "done"
        /\ calls[c].gets = 4
        /\ calls[c].last.kind = "transport"
        /\ calls[c].result.payload.code = "upstream_network_error"

\* C10: a 2xx response whose body is not valid JSON ends the call at that
\* attempt with upstream_invalid_json, and one whose body is JSON but not an
\* object with upstream_invalid_payload; retryable is false, there is no sleep
\* and no further request, also when attempts remain.
C10_BadBodyStops ==
    \A c \in Calls :
        LET call == calls[c]
            pl == call.result.payload
        IN  (call.module = "client" /\ call.last.kind = "response"
                /\ ~IsFailureStatus(call.last.status)
                /\ call.last.body # "object")
            => /\ call.pc = "done"
               /\ call.cancelledAt = ""
               /\ FailsWithPayload(call)
               /\ pl.code = IF call.last.body = "invalid"
                            THEN "upstream_invalid_json"
                            ELSE "upstream_invalid_payload"
               /\ pl.type = pl.code
               /\ pl.retryable = FALSE
               /\ pl.details.attempt = call.attempt
               /\ call.gets = call.attempt
               /\ Len(call.sleeps) = call.attempt - 1

\* C10 witness: an undecodable 2xx body on the second attempt
C10_Witness ==
    \E c \in Calls :
        /\ calls[c].module = "client"
        /\ calls[c].pc = "done"
        /\ calls[c].attempt = 2
        /\ calls[c].last.body = "invalid"
        /\ calls[c].result.payload.code = "upstream_invalid_json"

\* the delay of 0.5 * 2^(n-1) seconds capped at 8 seconds, in ms
BackoffMs(n) ==
    CASE n = 1 -> 500
      [] n = 2 -> 1000
      [] n = 3 -> 2000
      [] n = 4 -> 4000
      [] OTHER -> 8000

\* the header carries a number (the infinities compare like numbers; "nan" is
\* not a number)
HasNumericValue(ra) == ra.present /\ ra.numeric /\ ra.cls # "nan"

\* a number of ms clamped into [0, 8] seconds
ClampedMs(ra) ==
    CASE ra.cls = "inf" -> 8000
      [] ra.cls = "-inf" -> 0
      [] ra.ms < 0 -> 0
      [] ra.ms > 8000 -> 8000
      [] OTHER -> ra.ms

\* C11: the delay slept after failed attempt n (n in 1..3) is the Retry-After
\* value clamped into [0, 8] s when the failing response has a Retry-After
\* header with a numeric value, and min(0.5 * 2^(n-1), 8) s otherwise (header
\* absent or not numeric, transport failure); every delay lies in [0, 8] s.
C11_RetryDelay ==
    \A c \in Calls :
        LET call == calls[c]
        IN  (call.module = "client" /\ call.pc = "sleeping")
            => LET delay == call.sleeps[Len(call.sleeps)]
               IN  /\ call.attempt \in 1..3
                   /\ Len(call.sleeps) = call.attempt
                   /\ delay >= 0 /\ delay <= 8000
                   /\ delay = IF call.last.kind = "response"
                                 /\ HasNumericValue(call.retry_after)
                              THEN ClampedMs(call.retry_after)
                              ELSE BackoffMs(call.attempt)

\* C11 for every Retry-After header but "nan", where it holds
C11_RetryDelayNumbers ==
    \A c \in Calls :
        LET call == calls[c]
        IN  (call.module = "client" /\ call.pc = "sleeping"
                /\ call.retry_after.cls # "nan")
            => LET delay == call.sleeps[Len(call.sleeps)]
               IN  /\ call.attempt \in 1..3
                   /\ Len(call.sleeps) = call.attempt
                   /\ delay = IF call.last.kind = "response"
                                 /\ HasNumericValue(call.retry_after)
                              THEN ClampedMs(call.retry_after)
                              ELSE BackoffMs(call.attempt)

\* every computed delay lies in [0, 8] s, the "nan" header included
C11_DelayInRange ==
    \A c \in Calls :
        \A i \in 1..Len(calls[c].sleeps) :
            calls[c].sleeps[i] >= 0 /\ calls[c].sleeps[i] <= 8000

\* C12: _tool_error_boundary returns the Error Payload of a FredServerError as
\* it is, returns a ValueError as an Error Payload with code and type
\* validation_error, the failure's message as error and no base_url, endpoint
\* or status_code, and returns a successful result unchanged.
C12_BoundaryTranslates ==
    \A c \in Calls :
        LET call == calls[c]
            raw == call.raw
            res == call.result
        IN  (call.pc = "done" /\ call.entry = "boundary") =>
            /\ (raw.kind = "raised" /\ raw.exc = "FredServerError")
                => /\ res.kind = "returned"
                   /\ res.exc = ""
                   /\ res.payload = raw.payload
            /\ (raw.kind = "raised" /\ IsValueError(raw.exc))
                => /\ res.kind = "returned"
                   /\ res.exc = ""
                   /\ res.payload.keys = {"error", "error_details"}
                   /\ res.payload.code = "validation_error"
                   /\ res.payload.type = "validation_error"
                   /\ res.payload.error = raw.msg
                   /\ res.payload.base_url = NoBaseUrl
                   /\ res.payload.endpoint = <<>>
                   /\ res.payload.status_code = NoStatus
            /\ raw.kind = "returned" => res = raw

\* C12 witness: one wrapped call ended with a FredServerError and another with
\* a ValueError
C12_Witness ==
    \E c1, c2 \in Calls :
        /\ calls[c1].pc = "done" /\ calls[c1].module = "wrapped"
        /\ calls[c1].raw.exc = "FredServerError"
        /\ calls[c1].result.payload.code = "upstream_http_error"
        /\ calls[c2].pc = "done" /\ calls[c2].module = "wrapped"
        /\ calls[c2].raw.exc = "JSONDecodeError"
        /\ calls[c2].result.payload.code = "validation_error"

\* the raw outcome is an Exception other than FredServerError and ValueError
IsOtherFault(raw) ==
    raw.kind = "raised" /\ raw.exc # "FredServerError" /\ ~IsValueError(raw.exc)

\* C13: a fault of a wrapped tool that is neither a cancellation, a
\* FredServerError nor a ValueError is returned with code internal_error, the
\* message "Internal server error" and details holding only exception_type;
\* two faults of the same class with different messages give the same value,
\* so the fault's message does not reach the caller.
C13_InternalErrorHidesMessage ==
    /\ \A c \in Calls :
        LET call == calls[c]
            pl == call.result.payload
        IN  (call.pc = "done" /\ call.entry = "boundary" /\ IsOtherFault(call.raw))
            => /\ call.result.kind = "returned"
               /\ call.result.msg = ""
               /\ call.result.exc = ""
               /\ pl.keys = {"error", "error_details"}
               /\ pl.code = "internal_error"
               /\ pl.error = "Internal server error"
               /\ pl.details = [NoDetails EXCEPT !.exception_type = call.raw.exc]
    /\ \A c1, c2 \in Calls :
        (/\ calls[c1].pc = "done" /\ calls[c1].entry = "boundary"
         /\ calls[c2].pc = "done" /\ calls[c2].entry = "boundary"
         /\ IsOtherFault(calls[c1].raw) /\ IsOtherFault(calls[c2].raw)
         /\ calls[c1].raw.exc = calls[c2].raw.exc)
            => calls[c1].result = calls[c2].result

\* C13 witness: two faults of one class with different messages
C13_Witness ==
    \E c1, c2 \in Calls :
        /\ calls[c1].pc = "done" /\ calls[c2].pc = "done"
        /\ calls[c1].raw.exc = "KeyError" /\ calls[c2].raw.exc = "KeyError"
        /\ calls[c1].raw.msg = "secret-1" /\ calls[c2].raw.msg = "secret-2"
        /\ calls[c1].result.payload.code = "internal_error"

\* C14: a passthrough tool (fred_request, geofred_request, fred_v2_request)
\* given a params_json that is not valid JSON returns exactly the keys error
\* and error_details, with error beginning "Invalid JSON:" and code = type =
\* validation_error; given valid JSON that is not an object it returns error
\* "JSON value must be an object" with the same code and type; no upstream
\* request is issued in either case.
C14_PassthroughRejects ==
    \A c \in Calls :
        LET call == calls[c]
            pl == call.result.payload
        IN  (call.pc = "done" /\ call.entry = "passthrough"
                /\ call.params_json \in {"invalid", "array"})
            => /\ call.gets = 0
               /\ call.own = "none"
               /\ call.result.kind = "returned"
               /\ call.result.body = "error"
               /\ pl.keys = {"error", "error_details"}
               /\ pl.code = "validation_error"
               /\ pl.type = "validation_error"
               /\ pl.error = IF call.params_json = "invalid"
                              THEN "Invalid JSON: <decoder message>"
                              ELSE "JSON value must be an object"

\* the part of C14 that holds: the message is returned under "error" and no
\* request is issued
C14_PassthroughRejectsMessage ==
    \A c \in Calls :
        LET call == calls[c]
        IN  (call.pc = "done" /\ call.entry = "passthrough"
                /\ call.params_json \in {"invalid", "array"})
            => /\ call.gets = 0
               /\ call.own = "none"
               /\ call.result.kind = "returned"
               /\ "error" \in call.result.payload.keys
               /\ call.result.payload.error =
                    IF call.params_json = "invalid"
                    THEN "Invalid JSON: <decoder message>"
                    ELSE "JSON value must be an object"

\* C15: every request of every facade goes through the one shared,
\* lazily-initialized HTTP client: a call that has issued a GET holds the
\* shared client and has opened no client of its own, and without a reset at
\* most one client has been created.
C15_SharedClientOnly ==
    /\ resets = 0 => created <= 1
    /\ \A c \in Calls :
        LET call == calls[c]
        IN  call.gets >= 1
            => /\ call.own = "none"
               /\ call.client # 0
               /\ call.client \in 1..created

\* C15 restricted to fred_mcp/client.py, where it holds
C15_SharedClientOnlyClient ==
    /\ resets = 0 => created <= 1
    /\ \A c \in Calls :
        LET call == calls[c]
        IN  (call.gets >= 1 /\ call.module = "client")
            => /\ call.own = "none"
               /\ call.client # 0
               /\ call.client \in 1..created

\* C16: every request of every facade carries the query parameter file_type
\* with the value "json", also when the caller's mapping has another
\* file_type value or a null one.
C16_FileTypeJson ==
    \A c \in Calls :
        LET call == calls[c]
        IN  call.gets >= 1
            => /\ "file_type" \in DOMAIN call.query
               /\ call.query["file_type"] = [type |-> "str", text |-> <<"j", "s", "o", "n">>]

\* C16 witness: the second attempt of a call whose mapping asked for xml, and
\* in another slot or state a call whose mapping has a null file_type
C16_Witness ==
    \E c \in Calls :
        /\ calls[c].pc = "awaiting"
        /\ calls[c].attempt = 2
        /\ "file_type" \in DOMAIN calls[c].params
        /\ calls[c].params["file_type"].text = <<"x", "m", "l">>
        /\ calls[c].query["file_type"].text = <<"j", "s", "o", "n">>

\* C16 second case: a request of the v2 facade made with a null file_type
C16_WitnessNull ==
    \E c \in Calls :
        /\ calls[c].gets = 1
        /\ calls[c].facade = "v2"
        /\ "file_type" \in DOMAIN calls[c].params
        /\ calls[c].params["file_type"].type = "none"
        /\ calls[c].query["file_type"].text = <<"j", "s", "o", "n">>

\* the tool call received a 200 response with a JSON object
GotObject(call) ==
    /\ call.pc = "done"
    /\ call.tool # NoTool
    /\ call.last.kind = "response"
    /\ call.last.status = 200
    /\ call.last.body = "object"

\* the list in the upstream object, empty when the key is missing
UpstreamRows(call) == IF call.upstream.has_list THEN call.upstream.rows ELSE <<>>

Dot == [type |-> "str", text |-> <<".">>]

Null == [type |-> "none", text |-> <<>>]

\* C17: get_observations returns one row per upstream row in the upstream
\* order, each with the upstream date, with value null when the upstream
\* value is "." and the upstream value unchanged otherwise (so null exactly
\* for "." among the rows that have a value); count is the number of rows
\* returned and offset is the upstream offset when the upstream reports one.
C17_Observations ==
    \A c \in Calls :
        LET call == calls[c]
            up == UpstreamRows(call)
            res == call.result
        IN  (GotObject(call) /\ call.tool.name = "get_observations")
            => /\ res.kind = "returned"
               /\ Len(res.value.observations) = Len(up)
               /\ \A i \in 1..Len(up) :
                    LET out == res.value.observations[i]
                    IN  /\ DOMAIN out = {"date", "value"}
                        /\ out.date = up[i].date
                        /\ "value" \in DOMAIN up[i]
                            => /\ up[i].value = Dot => out.value = Null
                               /\ up[i].value # Dot => out.value = up[i].value
                               /\ out.value = Null <=> up[i].value = Dot
                        /\ "value" \notin DOMAIN up[i] => out.value = Null
               /\ res.value.count = Len(res.value.observations)
               /\ call.upstream.has_offset => res.value.offset = call.upstream.offset

\* C17 witness: the list of the test (a "." row, then a "1.23" row) with an
\* upstream offset other than the caller's
C17_Witness ==
    \E c \in Calls :
        /\ GotObject(calls[c])
        /\ calls[c].tool.name = "get_observations"
        /\ Len(calls[c].upstream.rows) = 2
        /\ \A i \in 1..2 : "value" \in DOMAIN calls[c].upstream.rows[i]
        /\ calls[c].upstream.rows[1].value = Dot
        /\ calls[c].upstream.rows[2].value.text = <<"1", ".", "2", "3">>
        /\ calls[c].result.value.observations[1].value = Null
        /\ calls[c].result.value.observations[2].value.text = <<"1", ".", "2", "3">>
        /\ calls[c].upstream.has_offset
        /\ calls[c].args.offset = 20
        /\ calls[c].result.value.offset = 120
        /\ calls[c].result.value.count = 2

\* C18: get_category and get_series return the first element of the upstream
\* list when it is not empty, and when it is empty or missing return a "not
\* found" Error Payload in the canonical shape (error and error_details).
C18_FirstOrNotFound ==
    \A c \in Calls :
        LET call == calls[c]
            up == UpstreamRows(call)
            res == call.result
        IN  (GotObject(call) /\ call.tool.name \in {"get_category", "get_series"})
            => /\ res.kind = "returned"
               /\ up # <<>> => res.body = "object" /\ res.value = up[1]
               /\ up = <<>>
                    => /\ res.body = "error"
                       /\ res.payload.keys = {"error", "error_details"}
                       /\ res.payload.error \in {"Category '<category_id>' not found",
                                                  "Series '<series_id>' not found"}

\* the part of C18 that holds: the first element, or a dict with the "not
\* found" message under "error"
C18_FirstOrMessage ==
    \A c \in Calls :
        LET call == calls[c]
            up == UpstreamRows(call)
            res == call.result
        IN  (GotObject(call) /\ call.tool.name \in {"get_category", "get_series"})
            => /\ res.kind = "returned"
               /\ up # <<>> => res.body = "object" /\ res.value = up[1]
               /\ up = <<>>
                    => /\ res.body = "error"
                       /\ "error" \in res.payload.keys
                       /\ res.payload.error \in {"Category '<category_id>' not found",
                                                  "Series '<series_id>' not found"}

UpperChar(ch) ==
    IF \E i \in 1..26 : LowerLetters[i] = ch
    THEN UpperLetters[CHOOSE i \in 1..26 : LowerLetters[i] = ch]
    ELSE ch

\* text is word in any mix of upper and lower case, with whitespace before
\* and after it
IsVariantOf(text, word) ==
    \E lead \in 0..Len(text) :
        LET trail == Len(text) - lead - Len(word)
        IN  /\ trail >= 0
            /\ \A i \in 1..lead : text[i] \in {" ", "\t", "\n"}
            /\ \A i \in 1..trail : text[lead + Len(word) + i] \in {" ", "\t", "\n"}
            /\ \A i \in 1..Len(word) :
                text[lead + i] \in {word[i], UpperChar(word[i])}

\* what the claim has a sort_order input normalize to
ExpectedSortOrder(value) ==
    IF value.type = "str" /\ IsVariantOf(value.text, <<"a", "s", "c">>)
    THEN <<"a", "s", "c">>
    ELSE <<"d", "e", "s", "c">>

\* C19: every case and whitespace variant of "asc" normalizes to "asc" and of
\* "desc" to "desc", every other input, a null one included, to "desc"; for
\* validation._normalize_sort_order and for the tools of fred_server.py, whose
\* request then carries that sort_order.
C19_SortOrder ==
    \A c \in Calls :
        LET call == calls[c]
            expected == ExpectedSortOrder(call.args.sort_order)
        IN  /\ (call.pc = "done" /\ call.entry = "_normalize_sort_order")
                => /\ call.result.kind = "returned"
                   /\ call.result.value.text = expected
            /\ (call.tool # NoTool /\ call.tool.sort_order /\ call.pc = "done")
                => ~(call.result.kind = "raised" /\ call.result.exc = "AttributeError"
                        /\ call.gets = 0)
            /\ (call.tool # NoTool /\ call.tool.sort_order /\ call.gets >= 1)
                => /\ "sort_order" \in DOMAIN call.query
                   /\ call.query["sort_order"].type = "str"
                   /\ call.query["sort_order"].text = expected

\* C19 for validation._normalize_sort_order on every input and for the tools
\* on every str input, where it holds
C19_SortOrderStr ==
    \A c \in Calls :
        LET call == calls[c]
            expected == ExpectedSortOrder(call.args.sort_order)
        IN  /\ (call.pc = "done" /\ call.entry = "_normalize_sort_order")
                => /\ call.result.kind = "returned"
                   /\ call.result.value.text = expected
            /\ (call.tool # NoTool /\ call.tool.sort_order
                    /\ call.args.sort_order.type = "str" /\ call.pc = "done")
                => call.gets = 1 \/ call.result.exc = "ValueError"
            /\ (call.tool # NoTool /\ call.tool.sort_order /\ call.gets >= 1)
                => /\ "sort_order" \in DOMAIN call.query
                   /\ call.query["sort_order"].text \in {<<"a", "s", "c">>,
                                                          <<"d", "e", "s", "c">>}
                   /\ call.query["sort_order"].text = expected

\* the table of the claim: the endpoints with their default and allowed set
OrderByTable == ORDER_BY_RULES

\* value matches an allowed order_by of the endpoint, case-insensitively
\* after trimming
MatchesAllowed(value, endpoint) ==
    /\ value.type = "str"
    /\ \E word \in OrderByTable[endpoint].valid : IsVariantOf(value.text, word)

\* what the claim has an order_by input become for the endpoint
IsExpectedOrderBy(text, value, endpoint) ==
    /\ text \in OrderByTable[endpoint].valid
    /\ IF MatchesAllowed(value, endpoint)
       THEN IsVariantOf(value.text, text)
       ELSE text = OrderByTable[endpoint].default

\* C20: for every tool that takes order_by and every input, the order_by
\* sent upstream is in the endpoint's allowed set of ORDER_BY_RULES, and an
\* input that does not match the set (case-insensitively, trimmed) is
\* replaced by the endpoint's default; likewise validation._normalize_order_by.
C20_OrderBy ==
    \A c \in Calls :
        LET call == calls[c]
        IN  /\ (call.pc = "done" /\ call.entry = "_normalize_order_by"
                    /\ call.endpoint \in DOMAIN OrderByTable)
                => /\ call.result.kind = "returned"
                   /\ IsExpectedOrderBy(call.result.value.text, call.args.order_by,
                                         call.endpoint)
            /\ (call.tool # NoTool /\ call.tool.order_by # "none" /\ call.gets >= 1)
                => /\ call.endpoint \in DOMAIN OrderByTable
                   /\ "order_by" \in DOMAIN call.query
                   /\ IsExpectedOrderBy(call.query["order_by"].text,
                                         call.args.order_by, call.endpoint)

\* C20 for validation._normalize_order_by and for get_releases, the one tool
\* that normalizes order_by, where it holds
C20_OrderByNormalized ==
    \A c \in Calls :
        LET call == calls[c]
        IN  /\ (call.pc = "done" /\ call.entry = "_normalize_order_by"
                    /\ call.endpoint \in DOMAIN OrderByTable)
                => /\ call.result.kind = "returned"
                   /\ IsExpectedOrderBy(call.result.value.text, call.args.order_by,
                                         call.endpoint)
            /\ (call.tool # NoTool /\ call.tool.name = "get_releases" /\ call.gets >= 1)
                => /\ "order_by" \in DOMAIN call.query
                   /\ IsExpectedOrderBy(call.query["order_by"].text,
                                         call.args.order_by, call.endpoint)

\* C21: validation._normalize_order_by called with an endpoint that is not a
\* key of ORDER_BY_RULES raises ValueError for every value, also for a value
\* that is valid for another endpoint and for a null one; it returns nothing,
\* neither a default nor the value.
C21_UnknownEndpointFails ==
    \A c \in Calls :
        LET call == calls[c]
        IN  (call.pc = "done" /\ call.entry = "_normalize_order_by"
                /\ call.endpoint \notin DOMAIN ORDER_BY_RULES)
            => /\ call.result.kind = "raised"
               /\ call.result.exc = "ValueError"
               /\ call.result.msg = "Unsupported order_by endpoint"
               /\ call.result.body = ""
               /\ call.result.value = PNone

\* C21 witness: "search_rank", valid for series/search, given for "Releases",
\* which differs from a key of the table by case only
C21_Witness ==
    \E c \in Calls :
        /\ calls[c].pc = "done"
        /\ calls[c].entry = "_normalize_order_by"
        /\ calls[c].endpoint = Text("Releases")
        /\ calls[c].args.order_by = PStr(Text("search_rank"))
        /\ calls[c].result.exc = "ValueError"

\* the input is a number: an int, or a float other than nan
IsNumber(value) ==
    \/ value.type = "int"
    \/ value.type = "float" /\ value.cls # "nan"

\* the input is missing or not a number: None, a text without digits, nan
IsNoNumber(value) ==
    \/ value.type = "none"
    \/ value.type = "str" /\ \A i \in 1..Len(value.text) :
                                value.text[i] \notin {"0", "1", "2", "3", "4", "5",
                                                      "6", "7", "8", "9"}
    \/ value.type = "float" /\ value.cls = "nan"

LimitNormalizers == {"_normalize_limit", "_clamp"}

OffsetNormalizers == {"_normalize_offset", "_non_negative"}

\* what the claim asks of one limit normalizer call
LimitConforms(call) ==
    /\ call.result.kind = "returned"
    /\ call.result.value.type = "int"
    /\ call.result.value.int >= call.bounds.low
    /\ call.result.value.int <= call.bounds.high
    /\ IsNoNumber(call.input) => call.result.value.int = call.bounds.low

\* what the claim asks of one offset normalizer call
OffsetConforms(call) ==
    /\ call.result.kind = "returned"
    /\ call.result.value.type = "int"
    /\ call.result.value.int >= 0
    /\ IsNoNumber(call.input) => call.result.value.int = 0
    /\ (call.input.type = "int" /\ call.input.int < 0) => call.result.value.int = 0
    /\ (call.input.type = "float" /\ call.input.cls = "-inf")
        => call.result.value.int = 0
    /\ (call.input.type = "float" /\ call.input.cls = "finite"
            /\ call.input.tenths < 0)
        => call.result.value.int = 0
    /\ (call.input.type = "int" /\ call.input.int >= 0)
        => call.result.value = call.input

\* C22: for every input (a number, not a number, missing) and every bounds
\* pair low <= high a limit normalizer returns an integer in [low, high], low
\* when the input is missing or not a number, and raises nothing; an offset
\* normalizer returns an integer >= 0, 0 for a negative, non-numeric or
\* missing input and the value itself otherwise, and raises nothing.  Stated
\* for the normalizers of validation.py and of fred_server.py.
C22_Paging ==
    \A c \in Calls :
        LET call == calls[c]
        IN  /\ (call.pc = "done" /\ call.entry \in LimitNormalizers)
                => LimitConforms(call)
            /\ (call.pc = "done" /\ call.entry \in OffsetNormalizers)
                => OffsetConforms(call)

\* C22 for validation.py on every input but the infinities, and for
\* fred_server.py on every int, where it holds
C22_PagingFinite ==
    \A c \in Calls :
        LET call == calls[c]
            covered == IF call.module = "validation"
                       THEN ~(call.input.type = "float"
                                /\ call.input.cls \in {"inf", "-inf"})
                       ELSE call.input.type = "int"
        IN  /\ (call.pc = "done" /\ call.entry \in LimitNormalizers /\ covered)
                => LimitConforms(call)
            /\ (call.pc = "done" /\ call.entry \in OffsetNormalizers /\ covered)
                => OffsetConforms(call)

\* the only failure of validation.py's normalizers is OverflowError on an
\* infinity; fred_server.py's raise TypeError on what is not an int or a float
C22_PagingFailures ==
    \A c \in Calls :
        LET call == calls[c]
        IN  (call.pc = "done" /\ call.entry \in LimitNormalizers \cup OffsetNormalizers
                /\ call.result.kind = "raised")
            => IF call.module = "validation"
               THEN /\ call.result.exc = "OverflowError"
                    /\ call.input.type = "float"
                    /\ call.input.cls \in {"inf", "-inf"}
               ELSE /\ call.result.exc = "TypeError"
                    /\ call.input.type \in {"none", "str"}

\* C23: _clean_params returns a mapping with exactly the input keys whose
\* value is not null, with True as the text "true", False as "false" and every
\* other value as it is; applied to its own output it returns that output; the
\* output has no null and no boolean value.
C23_CleanParams ==
    \A c \in Calls :
        LET call == calls[c]
            m == call.params
            out == call.query
        IN  (call.pc = "done" /\ call.entry = "_clean_params")
            => /\ DOMAIN out = {k \in DOMAIN m : m[k] # Null}
               /\ \A k \in DOMAIN out :
                    /\ m[k] = [type |-> "bool", text |-> <<"T", "r", "u", "e">>]
                        => out[k] = [type |-> "str", text |-> <<"t", "r", "u", "e">>]
                    /\ m[k] = [type |-> "bool", text |-> <<"F", "a", "l", "s", "e">>]
                        => out[k] = [type |-> "str",
                                     text |-> <<"f", "a", "l", "s", "e">>]
                    /\ m[k].type # "bool" => out[k] = m[k]
                    /\ out[k].type \notin {"none", "bool"}
               /\ call.result.kind = "returned"
               /\ call.result.value = out

\* C23 witness: the mapping of the test, {"flag": True, "ignore": None}
C23_Witness ==
    \E c \in Calls :
        /\ calls[c].pc = "done"
        /\ calls[c].entry = "_clean_params"
        /\ DOMAIN calls[c].params = {"flag", "ignore"}
        /\ calls[c].params["flag"].type = "bool"
        /\ calls[c].params["ignore"] = Null
        /\ DOMAIN calls[c].query = {"flag"}
        /\ calls[c].query["flag"].text = <<"t", "r", "u", "e">>
        /\ calls[c].result.value = calls[c].query

\* sub occurs in text
Contains(text, sub) ==
    \E i \in 1..(Len(text) - Len(sub) + 1) : SubSeq(text, i, i + Len(sub) - 1) = sub

\* the API key value, as configured and as a query string carries it
KeyTexts == {StrStrip(env.value), UrlEncode(StrStrip(env.value))}

\* the texts of the Error Payloads of _http_get_json
PayloadMessages ==
    {"Upstream request failed with status",
     "Network error while contacting upstream API",
     "Failed to decode upstream JSON response",
     "Upstream response was not a JSON object"}

\* C24: no log record of _http_get_json (of a retry or of a terminal failure)
\* and no Error Payload it produces contains the API key value: the logged
\* query snapshot has the keys of the query with "***" under api_key, and in
\* the logged text of a transport failure every "api_key=" is followed by
\* "***" and not by the value.
C24_NoKeyInLogsOrPayloads ==
    \A c \in Calls :
        LET call == calls[c]
            log == call.logged
            pl == call.raw.payload
        IN  call.module = "client" =>
            /\ log # NoLog =>
                /\ DOMAIN log.query = DOMAIN call.query
                /\ "api_key" \in DOMAIN log.query
                    => log.query["api_key"] = [type |-> "str", text |-> <<"*", "*", "*">>]
                /\ \A k \in DOMAIN log.query, key \in KeyTexts :
                    ~Contains(log.query[k].text, key)
                /\ \A key \in KeyTexts : ~Contains(log.reason, key)
                /\ \A i \in 1..Len(log.reason) :
                    LET rest == SubSeq(log.reason, i, Len(log.reason))
                    IN  StartsWith(rest, Text("api_key="))
                            => StartsWith(SubSeq(rest, 9, Len(rest)), <<"*", "*", "*">>)
            /\ call.last.kind = "transport" => log # NoLog
            /\ pl # NoPayload =>
                /\ pl.error \in PayloadMessages
                /\ pl.details.reason \in {"", "JSONDecodeError"}
                /\ pl.details.exception_type = ""
                /\ \A key \in KeyTexts : ~Contains(pl.endpoint, key)
                /\ call.result.payload = pl

\* C24 witness: the 4th attempt of a v1 call fails at the transport level with
\* a message that has the URL twice, the key being one a query string quotes;
\* the terminal record has the redacted text
C24_Witness ==
    \E c \in Calls :
        /\ calls[c].pc = "done"
        /\ calls[c].facade = "geofred"
        /\ calls[c].attempt = 4
        /\ env.value = Text("Z&9=")
        /\ calls[c].query["api_key"].text = Text("Z&9=")
        /\ calls[c].logged.level = "error"
        /\ calls[c].logged.reason =
                Text("/r?api_key=***&file_type=json -> /r?file_type=json&api_key=***")
        /\ calls[c].result.payload.code = "upstream_network_error"

\* C24 second case: the record of a retry, the message having the URL in
\* quotes with api_key last (the closing quote goes with the value)
C24_WitnessRetry ==
    \E c \in Calls :
        /\ calls[c].pc = "sleeping"
        /\ calls[c].facade = "fred"
        /\ calls[c].logged.level = "warning"
        /\ calls[c].logged.query["api_key"].text = <<"*", "*", "*">>
        /\ Contains(calls[c].logged.reason, Text("api_key=*** failed"))

\* the backoff sleeps of the call that have run to their end
CompletedSleeps(call) ==
    IF call.pc = "sleeping" \/ call.cancelledAt = "sleeping"
    THEN Len(call.sleeps) - 1
    ELSE Len(call.sleeps)

\* the outcome is a failure the loop retries
IsRetryableFailure(last) ==
    \/ last.kind = "transport"
    \/ last.kind = "response" /\ last.status \in {429, 500, 502, 503, 504}

\* C25: within one call of client._http_get_json the attempts are sequential:
\* a request is issued only in a step from a state where no request of the
\* call is awaited; the first from the start of the call, attempt n+1 from the
\* backoff sleep that followed a retryable status or a transport error on
\* attempt n; and once a request is issued the number of completed sleeps is
\* the number of requests minus one.
C25_Sequential ==
    /\ [](\A c \in Calls :
            (calls[c].module = "client" /\ calls[c].gets >= 1)
                => /\ CompletedSleeps(calls[c]) = calls[c].gets - 1
                   /\ calls[c].attempt = calls[c].gets
                   /\ calls[c].pc \in {"awaiting", "sleeping", "done"}
                   /\ calls[c].pc = "awaiting" => calls[c].last = NoOutcome
                   /\ calls[c].pc = "sleeping" => IsRetryableFailure(calls[c].last))
    /\ [][\A c \in Calls :
            (calls'[c].module = "client" /\ calls'[c].gets # calls[c].gets)
                => /\ calls'[c].gets = calls[c].gets + 1
                   /\ calls'[c].pc = "awaiting"
                   /\ calls[c].pc # "awaiting"
                   /\ IF calls[c].gets = 0
                      THEN calls[c].pc \in {"idle", "gc_locked"}
                      ELSE /\ calls[c].pc = "sleeping"
                           /\ IsRetryableFailure(calls[c].last)
                           /\ Len(calls[c].sleeps) = calls[c].gets
                           /\ calls'[c].sleeps = calls[c].sleeps]_vars

\* C25 witness: the third request of a call is awaited, after a transport
\* failure and a 503 and the two sleeps that followed them
C25_Witness ==
    \E c \in Calls :
        /\ calls[c].module = "client"
        /\ calls[c].pc = "awaiting"
        /\ calls[c].gets = 3
        /\ calls[c].sleeps = <<500, 3000>>

\* the last response of the call is a 2xx with a JSON object as its body
LastIsObject(call) ==
    /\ call.last.kind = "response"
    /\ call.last.status >= 200 /\ call.last.status <= 299
    /\ call.last.body = "object"

\* C26: when attempt k (k <= 4) of a client._http_get_json call receives a 2xx
\* response with a JSON object, after k-1 attempts that failed with a
\* retryable status or a transport error, the call is over at once with the
\* object as its value (also through the tool boundary), it issues no further
\* request, and no Error Payload is returned or raised.
C26_SuccessAfterRetries ==
    /\ [](\A c \in Calls :
            (calls[c].module = "client" /\ LastIsObject(calls[c]))
                => /\ calls[c].pc = "done"
                   /\ calls[c].attempt \in 1..4
                   /\ calls[c].gets = calls[c].attempt
                   /\ Len(calls[c].sleeps) = calls[c].attempt - 1
                   /\ calls[c].result.kind = "returned"
                   /\ calls[c].result.body = "object"
                   /\ calls[c].result.exc = ""
                   /\ calls[c].result.payload.keys = {}
                   /\ calls[c].raw = calls[c].result)
    /\ [][\A c \in Calls :
            (calls[c].module = "client" /\ LastIsObject(calls[c]))
                => \/ calls'[c] = calls[c]
                   \/ calls'[c].pc = "idle" /\ calls'[c].gets = 0]_vars

\* C26 witness: the 4th attempt succeeds after three failed ones, a transport
\* failure among them, in a call made through the tool boundary
C26_Witness ==
    \E c \in Calls :
        /\ calls[c].module = "client"
        /\ calls[c].entry = "boundary"
        /\ LastIsObject(calls[c])
        /\ calls[c].attempt = 4
        /\ calls[c].sleeps = <<500, 3000, 2000>>
        /\ calls[c].result.body = "object"

\* the codes of the Error Payloads client._http_get_json produces
FetchCodes ==
    {"upstream_http_error", "upstream_network_error", "upstream_invalid_json",
     "upstream_invalid_payload"}

\* the call is in the body of client._http_get_json
InFetch(call) ==
    call.module = "client" /\ call.pc \in {"gc_lock", "gc_locked", "awaiting", "sleeping"}

\* C27: for every sequence of upstream outcomes, mixes of retryable statuses
\* and transport failures included, a call of client._http_get_json (the API
\* key being set) issues at most HTTP_MAX_RETRIES + 1 = 4 requests, both kinds
\* of failure counting against the one budget, has issued at least 1 when it
\* ends, and does end; the details.attempt of an Error Payload it produces is
\* the number of requests the call issued.
C27_AttemptBudget ==
    /\ [](\A c \in Calls :
            calls[c].module = "client"
                => /\ calls[c].gets <= 4
                   /\ Len(calls[c].sleeps) <= 3
                   /\ calls[c].pc = "done" => calls[c].gets >= 1
                   /\ calls[c].raw.payload.code \in FetchCodes
                        => /\ calls[c].pc = "done"
                           /\ calls[c].raw.payload.details.attempt = calls[c].gets
                           /\ calls[c].result.payload.details.attempt = calls[c].gets)
    /\ \A c \in Calls : InFetch(calls[c]) ~> calls[c].pc = "done"

\* C27 witness: four requests, two answered by a transient status and two cut
\* by a transport failure, and the payload carries attempt 4
C27_Witness ==
    \E c \in Calls :
        /\ calls[c].pc = "done"
        /\ calls[c].gets = 4
        /\ calls[c].sleeps = <<3000, 1000, 8000>>
        /\ calls[c].last.kind = "transport"
        /\ calls[c].raw.payload.code = "upstream_network_error"
        /\ calls[c].raw.payload.details.attempt = 4

\* the call has a request or a sleep pending, or has ended
PastStart(call) == call.pc \in {"awaiting", "sleeping", "done"}

\* what the call's own history makes of it: the delays by its own attempt
\* number, the end by its own last outcome
OwnCourse(call) ==
    /\ call.attempt = call.gets
    /\ call.attempt \in 1..4
    /\ Len(call.sleeps) = IF call.pc = "sleeping" THEN call.attempt
                           ELSE call.attempt - 1
    /\ \A i \in 1..Len(call.sleeps) : call.sleeps[i] = BackoffMs(i)
    /\ call.pc = "awaiting" => call.last = NoOutcome /\ call.result.kind = "none"
    /\ call.pc = "sleeping" => IsRetryableFailure(call.last) /\ call.attempt < 4
    /\ call.pc = "done" =>
        CASE LastIsObject(call) ->
                call.result.kind = "returned" /\ call.result.body = "object"
          [] call.last.kind = "transport" ->
                /\ call.attempt = 4
                /\ call.result.payload.code = "upstream_network_error"
                /\ call.result.payload.details.attempt = 4
          [] OTHER ->
                /\ call.attempt = 4
                /\ call.result.payload.code = "upstream_http_error"
                /\ call.result.payload.status_code = call.last.status
                /\ call.result.payload.details.attempt = 4

\* C28: with several client.py calls in flight over the shared client, under
\* every interleaving, each call's attempts, delays and outcome follow from
\* its own attempt counter and its own upstream outcomes; a step of one call
\* (a failure, a retry, a sleep, its end) leaves every other call as it was,
\* and leaves the shared client reference as it was.
C28_CallsIndependent ==
    /\ [](\A c \in Calls :
            (calls[c].module = "client" /\ PastStart(calls[c]))
                => /\ OwnCourse(calls[c])
                   /\ calls[c].client = _http_client)
    /\ [][\A c \in Calls :
            calls'[c] # calls[c]
                => /\ \A d \in Calls \ {c} : calls'[d] = calls[d]
                   /\ PastStart(calls[c])
                        => /\ _http_client' = _http_client
                           /\ _http_client_lock' = _http_client_lock
                           /\ created' = created
                           /\ live' = live]_vars

\* C28 witness: side by side over the one shared client, a call that failed
\* four times and a call whose first request succeeded
C28_Witness ==
    \E c, d \in Calls :
        /\ c # d
        /\ calls[c].pc = "done" /\ calls[d].pc = "done"
        /\ calls[c].client = calls[d].client
        /\ calls[c].attempt = 4
        /\ calls[c].sleeps = <<500, 1000, 2000>>
        /\ calls[c].result.payload.code = "upstream_http_error"
        /\ calls[d].attempt = 1
        /\ calls[d].sleeps = <<>>
        /\ calls[d].result.body = "object"

\* C28 second case: two calls are retrying at the same time, one in its first
\* backoff sleep and the other awaiting its third request
C28_WitnessInFlight ==
    \E c, d \in Calls :
        /\ calls[c].pc = "sleeping" /\ calls[c].attempt = 1
        /\ calls[d].pc = "awaiting" /\ calls[d].attempt = 3
        /\ calls[c].client = calls[d].client

====
